---------------------------- MODULE Spec2Model ----------------------------
(***************************************************************************)
(* Model of doc_genie/analyzer.py: the analysis pipeline driven by         *)
(* GitHubCodebaseAnalyzer.analyze_repository (path filter, per-file        *)
(* analyzer, manifest parsers, technology scorer) over a remote            *)
(* repository reached through GitHubAPIClient.                             *)
(*                                                                         *)
(* Texts (paths, file contents, manifest contents) are strings; a          *)
(* character is a string of length one.  Confidences are kept in tenths    *)
(* and complexity scores in hundredths, so that both are integers.         *)
(***************************************************************************)
EXTENDS Integers, Sequences, FiniteSets, TLC

(***************************************************************************)
(* Python string primitives                                                *)
(***************************************************************************)

Ch(s, i) == SubSeq(s, i, i)

Min(S) == CHOOSE x \in S : \A y \in S : x <= y

Max(S) == CHOOSE x \in S : \A y \in S : x >= y

\* Op(x), with x evaluated once
Eval(Op(_), x) == CHOOSE r \in {Op(w) : w \in {x}} : TRUE

\* the function f with its values computed once: the comparison enumerates it
Tabulated(f) == IF f = <<>> THEN f ELSE f

StartsWith(s, p) == Len(p) <= Len(s) /\ SubSeq(s, 1, Len(p)) = p

EndsWith(s, p) == Len(p) <= Len(s) /\ SubSeq(s, Len(s) - Len(p) + 1, Len(s)) = p

\* s[i:] with a 1-based i
From(s, i) == SubSeq(s, i, Len(s))

UpperChars == "ABCDEFGHIJKLMNOPQRSTUVWXYZ"

LowerChars == "abcdefghijklmnopqrstuvwxyz"

LowerOf == [c \in {Ch(UpperChars, k) : k \in 1..26} |->
               Ch(LowerChars, CHOOSE k \in 1..26 : Ch(UpperChars, k) = c)]

LowerChar(c) == IF c \in DOMAIN LowerOf THEN LowerOf[c] ELSE c

\* str.lower
RECURSIVE Lower(_)
Lower(s) ==
    IF Len(s) = 0 THEN ""
    ELSE IF Len(s) = 1 THEN LowerChar(s)
    ELSE Lower(SubSeq(s, 1, Len(s) \div 2)) \o Lower(SubSeq(s, Len(s) \div 2 + 1, Len(s)))

\* str.lstrip(chars), str.rstrip(chars): cs is the set of characters to strip
LStripSet(s, cs) ==
    LET kept == {i \in 1..Len(s) : Ch(s, i) \notin cs}
    IN  IF kept = {} THEN "" ELSE SubSeq(s, Min(kept), Len(s))

RStripSet(s, cs) ==
    LET kept == {i \in 1..Len(s) : Ch(s, i) \notin cs}
    IN  IF kept = {} THEN "" ELSE SubSeq(s, 1, Max(kept))

Whitespace == {" ", "\t", "\n", "\r"}

LStrip(s) == LStripSet(s, Whitespace)

RStrip(s) == RStripSet(s, Whitespace)

Strip(s) == LStrip(RStrip(s))

LStripChar(s, c) == LStripSet(s, {c})

RStripChar(s, c) == RStripSet(s, {c})

\* index of the first occurrence of sub in s at or after position i; 0 if none
FindFrom(s, sub, i) ==
    LET hits == {k \in i..(Len(s) - Len(sub) + 1) : SubSeq(s, k, k + Len(sub) - 1) = sub}
    IN  IF hits = {} THEN 0 ELSE Min(hits)

Contains(s, sub) == FindFrom(s, sub, 1) # 0

\* str.count: the number of non-overlapping occurrences of sub in s
RECURSIVE CountFrom(_, _, _)
CountFrom(s, sub, i) ==
    LET k == FindFrom(s, sub, i)
    IN  IF k = 0 THEN 0 ELSE 1 + CountFrom(s, sub, k + Len(sub))

Count(s, sub) == CountFrom(s, sub, 1)

\* the occurrence of the character c nearest the middle of s; 0 if none
MiddleHit(s, c) ==
    LET hits == {k \in 1..Len(s) : Ch(s, k) = c}
        late == {k \in hits : 2 * k >= Len(s)}
    IN  IF hits = {} THEN 0 ELSE IF late # {} THEN Min(late) ELSE Max(hits)

\* str.split(sep) for a non-empty separator.  The parts around a
\* one-character separator are the same wherever the scan starts, so a long
\* text is cut at the occurrence nearest its middle first.
RECURSIVE Split(_, _)
Split(s, sep) ==
    LET k == IF Len(sep) = 1 THEN MiddleHit(s, sep) ELSE FindFrom(s, sep, 1)
    IN  IF k = 0 THEN <<s>>
        ELSE IF Len(sep) = 1
             THEN Split(SubSeq(s, 1, k - 1), sep) \o Split(From(s, k + 1), sep)
             ELSE <<SubSeq(s, 1, k - 1)>> \o Split(From(s, k + Len(sep)), sep)

\* str.splitlines for texts whose only line break is "\n": no final empty line
SplitLines(s) ==
    LET parts == Split(s, "\n")
    IN  IF parts[Len(parts)] = "" THEN SubSeq(parts, 1, Len(parts) - 1) ELSE parts

\* str.replace(old, new) for a non-empty old
RECURSIVE Replace(_, _, _)
Replace(s, old, new) ==
    LET k == FindFrom(s, old, 1)
    IN  IF k = 0 THEN s
        ELSE SubSeq(s, 1, k - 1) \o new \o Replace(From(s, k + Len(old)), old, new)

\* index of the last occurrence of the character c in s; 0 if none
RFindChar(s, c) ==
    LET hits == {k \in 1..Len(s) : Ch(s, k) = c}
    IN  IF hits = {} THEN 0 ELSE Max(hits)

\* pathlib.PurePath(name).suffix for a name without "/"
PathSuffix(name) ==
    LET i == RFindChar(name, ".")
    IN  IF 1 < i /\ i < Len(name) THEN From(name, i) ELSE ""

\* file_path.split('/')[-1]
BaseName(path) == LET parts == Split(path, "/") IN parts[Len(parts)]


(***************************************************************************)
(* Regular expressions (module re) for the pattern shapes the program      *)
(* uses: a pattern is a sequence of elements, each a character class with  *)
(* a repetition "1", "*" or "+"; repetitions are greedy and backtrack.     *)
(***************************************************************************)

\* a literal string
Lit(str) == <<[k |-> "lit", c |-> str, rep |-> "1"]>>

\* \s, \w, ., [^...] and [...] with a repetition
Cls(kind, chars, rep) == <<[k |-> kind, c |-> chars, rep |-> rep]>>

\* the end of the text (\Z): matches no character
AtEnd == <<[k |-> "end", c |-> "", rep |-> "1"]>>

WordChars == "abcdefghijklmnopqrstuvwxyzABCDEFGHIJKLMNOPQRSTUVWXYZ0123456789_"

\* whether the literal lit is what s holds at position i
LitMatches(lit, s, i) ==
    i + Len(lit) - 1 <= Len(s) /\ SubSeq(s, i, i + Len(lit) - 1) = lit

\* whether the character class e matches the character ch
ElemMatches(e, ch) ==
    CASE e.k = "space" -> ch \in Whitespace
      [] e.k = "word"  -> \E j \in 1..Len(WordChars) : Ch(WordChars, j) = ch
      [] e.k = "any"   -> ch # "\n"
      [] e.k = "not"   -> \A j \in 1..Len(e.c) : Ch(e.c, j) # ch
      [] e.k = "in"    -> \E j \in 1..Len(e.c) : Ch(e.c, j) = ch

\* the length of the longest run of characters matching e from position i
RunLen(e, s, i) ==
    Min({j \in i..(Len(s) + 1) : j = Len(s) + 1 \/ ~ElemMatches(e, Ch(s, j))}) - i

\* the position after the match of p[k..] starting at i, or 0 when there is none
RECURSIVE MatchAt(_, _, _, _)
MatchAt(p, k, s, i) ==
    IF k > Len(p) THEN i
    ELSE IF p[k].k = "end"
         THEN IF i = Len(s) + 1 THEN MatchAt(p, k + 1, s, i) ELSE 0
    ELSE IF p[k].k = "lit"
         THEN IF LitMatches(p[k].c, s, i) THEN MatchAt(p, k + 1, s, i + Len(p[k].c)) ELSE 0
    ELSE IF p[k].rep = "1"
         THEN IF i <= Len(s) /\ ElemMatches(p[k], Ch(s, i)) THEN MatchAt(p, k + 1, s, i + 1) ELSE 0
         ELSE \* greedy: the longest repetition after which the rest matches
              LET least == IF p[k].rep = "+" THEN 1 ELSE 0
                  good  == {n \in least..RunLen(p[k], s, i) : MatchAt(p, k + 1, s, i + n) # 0}
              IN  IF good = {} THEN 0 ELSE MatchAt(p, k + 1, s, i + Max(good))

\* the start positions of the matches re.findall reports from position i on:
\* leftmost first, non-overlapping
RECURSIVE FindAllFrom(_, _, _)
FindAllFrom(p, s, i) ==
    LET \* <<start, end>> of the leftmost match at or after i, if any
        first == {m \in {<<j, MatchAt(p, 1, s, j)>> : j \in i..Len(s)} :
                     /\ m[2] # 0
                     /\ \A j \in i..(m[1] - 1) : MatchAt(p, 1, s, j) = 0}
    IN  Eval(LAMBDA ms : IF ms = {} THEN <<>>
                         ELSE Eval(LAMBDA m : <<m[1]>> \o FindAllFrom(p, s, Max({m[2], m[1] + 1})),
                                   CHOOSE m \in ms : TRUE),
             first)

\* the pattern under re.IGNORECASE, to be matched against the lower-cased text
IgnoreCase(p) == [k \in 1..Len(p) |-> [p[k] EXCEPT !.c = Lower(@)]]

\* len(re.findall(p, s)); ic: with re.IGNORECASE
FindAllCount(p, s, ic) ==
    Len(FindAllFrom(IF ic THEN IgnoreCase(p) ELSE p, IF ic THEN Lower(s) ELSE s, 1))

(***************************************************************************)
(* class File                                                              *)
(***************************************************************************)

\* File._detect_language: extension_map.get(extension.lower(), "Unknown")
detect_language(extension) ==
    LET e == Lower(extension)
    IN  CASE e = "py"   -> "Python"
          [] e = "js"   -> "JavaScript"
          [] e = "ts"   -> "TypeScript"
          [] e = "java" -> "Java"
          [] e = "cpp"  -> "C++"
          [] e = "c"    -> "C"
          [] e = "go"   -> "Go"
          [] e = "rs"   -> "Rust"
          [] e = "rb"   -> "Ruby"
          [] e = "php"  -> "PHP"
          [] e = "cs"   -> "C#"
          [] e = "swift" -> "Swift"
          [] e = "kt"   -> "Kotlin"
          [] e = "html" -> "HTML"
          [] e = "css"  -> "CSS"
          [] e = "json" -> "JSON"
          [] e = "yaml" -> "YAML"
          [] e = "yml"  -> "YAML"
          [] OTHER      -> "Unknown"

\* File.__init__
File(path, name, extension, size, content) ==
    [path |-> path, name |-> name, extension |-> extension, size |-> size,
     content |-> content, language |-> detect_language(extension),
     line_count |-> 0, function_count |-> 0, class_count |-> 0,
     complexity_score |-> 0]

(***************************************************************************)
(* ast.parse, for the statements of Python that the texts of the model     *)
(* use: one statement per line; def, async def, class and if headers,      *)
(* with their body on the header's line or as an indented block; pass,     *)
(* return, assignment, import and call statements.  Any other line, a      *)
(* header with no body and a misplaced indentation are syntax errors.      *)
(***************************************************************************)

Sp == Cls("space", "", "+")

OptSp == Cls("space", "", "*")

Ident == Cls("word", "", "+")

ArgList == Lit("(") \o Cls("in", WordChars \o ", ", "*") \o Lit(")")

PyHeaders ==
    <<[kind |-> "def",   pat |-> Lit("def") \o Sp \o Ident \o OptSp \o ArgList \o OptSp \o Lit(":")],
      [kind |-> "async", pat |-> Lit("async") \o Sp \o Lit("def") \o Sp \o Ident \o OptSp
                                  \o ArgList \o OptSp \o Lit(":")],
      [kind |-> "class", pat |-> Lit("class") \o Sp \o Ident \o OptSp \o Lit(":")],
      [kind |-> "class", pat |-> Lit("class") \o Sp \o Ident \o OptSp \o ArgList \o OptSp \o Lit(":")],
      [kind |-> "if",    pat |-> Lit("if") \o Sp \o Ident \o OptSp \o Lit(":")]>>

PySimple ==
    <<Lit("pass"),
      Lit("return"),
      Lit("return") \o Sp \o Ident,
      Ident \o OptSp \o Lit("=") \o OptSp \o Ident,
      Lit("import") \o Sp \o Ident,
      Lit("from") \o Sp \o Ident \o Sp \o Lit("import") \o Sp \o Ident,
      Ident \o ArgList>>

PyIsSimple(stmt) ==
    \E k \in 1..Len(PySimple) : MatchAt(PySimple[k] \o AtEnd, 1, stmt, 1) # 0

\* the header a statement starts with: [kind, rest] or kind "none"
PyHeader(stmt) ==
    Eval(LAMBDA ends :
             IF \A k \in 1..Len(ends) : ends[k] = 0 THEN [kind |-> "none", rest |-> stmt]
             ELSE Eval(LAMBDA k : [kind |-> PyHeaders[k].kind,
                                   rest |-> Strip(From(stmt, ends[k]))],
                       Min({k \in 1..Len(ends) : ends[k] # 0})),
         [k \in 1..Len(PyHeaders) |-> MatchAt(PyHeaders[k].pat, 1, stmt, 1)])

Indent(line) == Len(line) - Len(LStripChar(line, " "))

\* one line of the module; st: [ok, stack of open indentations, expect (a
\* block must start), defs, asyncs, classes]
\* the stack of indentations once a line indented by ind is placed; <<>>
\* when the indentation fits no open block
Placed(st, ind) ==
    IF st.expect
    THEN IF ind > st.stack[Len(st.stack)] THEN Append(st.stack, ind) ELSE <<>>
    ELSE IF \E d \in 1..Len(st.stack) : st.stack[d] = ind
         THEN SubSeq(st.stack, 1, CHOOSE d \in 1..Len(st.stack) : st.stack[d] = ind)
         ELSE <<>>

\* the state after the statement stmt with header h is placed on stack
PyStatement(st, stack, h) ==
    IF stack = <<>> \/ ~(h.rest = "" \/ PyIsSimple(h.rest)) \/ (h.kind = "none" /\ h.rest = "")
    THEN [st EXCEPT !.ok = FALSE]
    ELSE [ok |-> TRUE, stack |-> stack,
          expect |-> h.kind # "none" /\ h.rest = "",
          defs |-> st.defs + (IF h.kind = "def" THEN 1 ELSE 0),
          asyncs |-> st.asyncs + (IF h.kind = "async" THEN 1 ELSE 0),
          classes |-> st.classes + (IF h.kind = "class" THEN 1 ELSE 0)]

PyLine(st, line) ==
    Eval(LAMBDA stmt : IF ~st.ok \/ stmt = "" \/ StartsWith(stmt, "#") THEN st
                       ELSE Eval(LAMBDA h : PyStatement(st, Placed(st, Indent(line)), h),
                                 PyHeader(stmt)),
         Strip(line))

RECURSIVE PyFold(_, _, _)
PyFold(st, lines, i) ==
    IF i > Len(lines) THEN st ELSE PyFold(PyLine(st, lines[i]), lines, i + 1)

\* ast.parse(text): ok is FALSE when it raises SyntaxError; defs, asyncs and
\* classes count the FunctionDef, AsyncFunctionDef and ClassDef nodes of the tree
ast_parse(text) ==
    Eval(LAMBDA st : [st EXCEPT !.ok = st.ok /\ ~st.expect],
         PyFold([ok |-> TRUE, stack |-> <<0>>, expect |-> FALSE,
                 defs |-> 0, asyncs |-> 0, classes |-> 0],
                Split(text, "\n"), 1))

(***************************************************************************)
(* class CodeAnalyzer                                                      *)
(***************************************************************************)

\* a Python analysis that counts keywords when the text does not parse
analyze_python_code_KeywordFallback(file_obj) ==
    Eval(LAMBDA tree : IF tree.ok
                       THEN [file_obj EXCEPT !.function_count = tree.defs,
                                             !.class_count = tree.classes]
                       ELSE [file_obj EXCEPT
                                !.function_count = Count(Lower(file_obj.content), "def"),
                                !.class_count = Count(Lower(file_obj.content), "class")],
         ast_parse(file_obj.content))

\* ast.walk counts isinstance(node, ast.FunctionDef) and ast.ClassDef; any
\* exception leaves the counts as they were
analyze_python_code(file_obj) ==
    Eval(LAMBDA tree : IF tree.ok
                       THEN [file_obj EXCEPT !.function_count = tree.defs,
                                             !.class_count = tree.classes]
                       ELSE file_obj,
         ast_parse(file_obj.content))

function_patterns ==
    <<Lit("function") \o Sp \o Ident \o OptSp \o Lit("("),
      Ident \o OptSp \o Lit(":") \o OptSp \o Lit("function") \o OptSp \o Lit("("),
      Ident \o OptSp \o Lit("=") \o OptSp \o Lit("function") \o OptSp \o Lit("("),
      Ident \o OptSp \o Lit("=") \o OptSp \o Lit("(") \o Cls("not", ")", "*") \o Lit(")")
          \o OptSp \o Lit("=>"),
      Lit("async") \o Sp \o Lit("function") \o Sp \o Ident \o OptSp \o Lit("(")>>

class_pattern == Lit("class") \o Sp \o Ident

RECURSIVE SumCounts(_, _, _)
SumCounts(content, keywords, i) ==
    IF i > Len(keywords) THEN 0
    ELSE Count(content, keywords[i]) + SumCounts(content, keywords, i + 1)

RECURSIVE SumFindAll(_, _, _)
SumFindAll(content, patterns, i) ==
    IF i > Len(patterns) THEN 0
    ELSE FindAllCount(patterns[i], content, FALSE) + SumFindAll(content, patterns, i + 1)

analyze_javascript_code(file_obj) ==
    [file_obj EXCEPT !.function_count = SumFindAll(file_obj.content, function_patterns, 1),
                     !.class_count = FindAllCount(class_pattern, file_obj.content, FALSE)]

function_keywords == <<"function", "def", "func", "sub", "procedure", "method">>

class_keywords == <<"class", "struct", "interface", "type">>

analyze_generic_code(file_obj) ==
    LET content == Lower(file_obj.content)
    IN  [file_obj EXCEPT !.function_count = SumCounts(content, function_keywords, 1),
                         !.class_count = SumCounts(content, class_keywords, 1)]

control_structures == <<"if", "for", "while", "switch", "case", "try", "catch">>

\* a score that looks for the keywords in the first line only
calculate_complexity_FirstLine(content) ==
    10 * Len(Split(content, "\n"))
    + 50 * SumCounts(Lower(Split(content, "\n")[1]), control_structures, 1)

\* a score that counts the keywords as they are written
calculate_complexity_CaseSensitive(content) ==
    10 * Len(Split(content, "\n")) + 50 * SumCounts(content, control_structures, 1)

\* in hundredths: len(lines) * 0.1 + 0.5 per keyword occurrence is a whole
\* number of tenths, which round(complexity, 2) returns as it is
calculate_complexity(content) ==
    10 * Len(Split(content, "\n")) + 50 * SumCounts(Lower(content), control_structures, 1)

analyze_file(file_obj) ==
    IF file_obj.content = "" THEN file_obj
    ELSE Eval(LAMBDA counted :
                  [(IF file_obj.language = "Python" THEN analyze_python_code(counted)
                    ELSE IF file_obj.language \in {"JavaScript", "TypeScript"}
                         THEN analyze_javascript_code(counted)
                         ELSE analyze_generic_code(counted))
                      EXCEPT !.complexity_score = calculate_complexity(file_obj.content)],
              [file_obj EXCEPT !.line_count = Len(Split(file_obj.content, "\n"))])

(***************************************************************************)
(* json.loads, for JSON texts without string escapes and with unsigned     *)
(* integer numbers.  A value is [t, s, items]: t is "obj" (items: the      *)
(* <<key, value>> pairs in source order), "arr" (items: the elements),     *)
(* "str" (s: the string), "num" or "lit" (s: the source text).            *)
(***************************************************************************)

SkipWs(s, i) ==
    Min({j \in i..(Len(s) + 1) : j = Len(s) + 1 \/ Ch(s, j) \notin Whitespace})

JsonFail == [ok |-> FALSE, end |-> 0, val |-> [t |-> "lit", s |-> "", items |-> <<>>]]

JsonOk(end, t, str, items) ==
    [ok |-> TRUE, end |-> end, val |-> [t |-> t, s |-> str, items |-> items]]

Digits == {"0", "1", "2", "3", "4", "5", "6", "7", "8", "9"}

JsonLiterals == <<"null", "true", "false">>

RECURSIVE JsonValue(_, _)
RECURSIVE JsonMembers(_, _, _)
RECURSIVE JsonElements(_, _, _)
\* the value starting at or after position i0
JsonValue(s, i0) ==
    LET i == SkipWs(s, i0)
        c == Ch(s, i)
    IN  IF i > Len(s) THEN JsonFail
        ELSE IF c = "\""
             THEN LET close == FindFrom(s, "\"", i + 1)
                  IN  IF close = 0 THEN JsonFail
                      ELSE JsonOk(close + 1, "str", SubSeq(s, i + 1, close - 1), <<>>)
        ELSE IF c = "{"
             THEN IF Ch(s, SkipWs(s, i + 1)) = "}"
                  THEN JsonOk(SkipWs(s, i + 1) + 1, "obj", "", <<>>)
                  ELSE JsonMembers(s, i + 1, <<>>)
        ELSE IF c = "["
             THEN IF Ch(s, SkipWs(s, i + 1)) = "]"
                  THEN JsonOk(SkipWs(s, i + 1) + 1, "arr", "", <<>>)
                  ELSE JsonElements(s, i + 1, <<>>)
        ELSE IF c \in Digits
             THEN LET e == Min({j \in i..(Len(s) + 1) : j = Len(s) + 1 \/ Ch(s, j) \notin Digits})
                  IN  JsonOk(e, "num", SubSeq(s, i, e - 1), <<>>)
        ELSE IF \E k \in 1..3 : StartsWith(From(s, i), JsonLiterals[k])
             THEN LET k == CHOOSE n \in 1..3 : StartsWith(From(s, i), JsonLiterals[n])
                  IN  JsonOk(i + Len(JsonLiterals[k]), "lit", JsonLiterals[k], <<>>)
        ELSE JsonFail

\* "key": value pairs up to the closing brace; acc holds those already read
JsonMembers(s, i0, acc) ==
    LET key == JsonValue(s, i0)
        colon == SkipWs(s, key.end)
        v == JsonValue(s, colon + 1)
        next == SkipWs(s, v.end)
        pairs == Append(acc, <<key.val.s, v.val>>)
    IN  IF ~key.ok \/ key.val.t # "str" \/ Ch(s, colon) # ":" THEN JsonFail
        ELSE IF ~v.ok THEN JsonFail
        ELSE IF Ch(s, next) = "," THEN JsonMembers(s, next + 1, pairs)
        ELSE IF Ch(s, next) = "}" THEN JsonOk(next + 1, "obj", "", pairs)
        ELSE JsonFail

JsonElements(s, i0, acc) ==
    LET v == JsonValue(s, i0)
        next == SkipWs(s, v.end)
        elems == Append(acc, v.val)
    IN  IF ~v.ok THEN JsonFail
        ELSE IF Ch(s, next) = "," THEN JsonElements(s, next + 1, elems)
        ELSE IF Ch(s, next) = "]" THEN JsonOk(next + 1, "arr", "", elems)
        ELSE JsonFail

\* json.loads(s): ok is FALSE when it raises JSONDecodeError
json_loads(s) ==
    Eval(LAMBDA v : IF v.ok /\ SkipWs(s, v.end) = Len(s) + 1 THEN v ELSE JsonFail,
         JsonValue(s, 1))

\* a dict built from pairs: a repeated key keeps its first place and its
\* last value
DictItems(pairs) ==
    LET firsts == {k \in 1..Len(pairs) : \A j \in 1..(k - 1) : pairs[j][1] # pairs[k][1]}
        last(k) == Max({j \in 1..Len(pairs) : pairs[j][1] = pairs[k][1]})
        pick[n \in 0..Len(pairs)] ==
            IF n = 0 THEN <<>>
            ELSE IF n \in firsts
                 THEN Append(pick[n - 1], <<pairs[n][1], pairs[last(n)][2]>>)
                 ELSE pick[n - 1]
    IN  pick[Len(pairs)]

\* a value as the text a record keeps for it
JsonText(v) == IF v.t = "str" THEN v.s ELSE IF v.t \in {"num", "lit"} THEN v.s ELSE v.t

(***************************************************************************)
(* class DependencyAnalyzer.  A parser's result is [raised, deps]: raised  *)
(* when the call ends with an exception, deps the records it returns.      *)
(***************************************************************************)

Raised == [raised |-> TRUE, deps |-> <<>>]

Returned(deps) == [raised |-> FALSE, deps |-> deps]

Dep(name, version, type, is_dev) ==
    [name |-> name, version |-> version, type |-> type, is_dev |-> is_dev]

\* `dep_type in data`: "yes", "no" or "raise" (TypeError for a number, null,
\* true or false)
JsonHas(data, key) ==
    CASE data.t = "obj" -> IF \E k \in 1..Len(data.items) : data.items[k][1] = key
                           THEN "yes" ELSE "no"
      [] data.t = "arr" -> IF \E k \in 1..Len(data.items) :
                                  data.items[k].t = "str" /\ data.items[k].s = key
                           THEN "yes" ELSE "no"
      [] data.t = "str" -> IF Contains(data.s, key) THEN "yes" ELSE "no"
      [] OTHER          -> "raise"

\* the records of `for name, version in data[dep_type].items()`
\* data[key] of a dict given by its items
DictGet(items, key) == items[CHOOSE k \in 1..Len(items) : items[k][1] = key][2]

\* the records of `for name, version in value.items()`
JsonDepRecords(value, type, is_dev) ==
    Eval(LAMBDA entries : [k \in 1..Len(entries) |->
                              Dep(entries[k][1], JsonText(entries[k][2]), type, is_dev)],
         DictItems(value.items))

\* the loop over the two keys of a JSON manifest, shared by the npm and the
\* Composer parser: data[dep_type] raises TypeError unless data is a dict,
\* and .items() raises AttributeError unless the value is a dict
RECURSIVE JsonManifestLoop(_, _, _, _, _)
JsonManifestLoop(data, keys, type, k, acc) ==
    IF k > Len(keys) THEN Returned(acc)
    ELSE Eval(LAMBDA has :
                  IF has = "raise" THEN Raised
                  ELSE IF has = "no" THEN JsonManifestLoop(data, keys, type, k + 1, acc)
                  ELSE IF data.t # "obj" THEN Raised
                  ELSE Eval(LAMBDA value :
                                IF value.t # "obj" THEN Raised
                                ELSE JsonManifestLoop(data, keys, type, k + 1,
                                                      acc \o JsonDepRecords(value, type, k = 2)),
                            DictGet(DictItems(data.items), keys[k])),
              JsonHas(data, keys[k]))

\* the body shared by the npm and the Composer parser, after data = json.loads(content)
JsonManifest(data, keys, type) ==
    IF ~data.ok THEN Raised ELSE JsonManifestLoop(data.val, keys, type, 1, <<>>)

parse_npm_dependencies(content) ==
    JsonManifest(json_loads(content), <<"dependencies", "devDependencies">>, "npm")

parse_composer_dependencies(content) ==
    JsonManifest(json_loads(content), <<"require", "require-dev">>, "composer")

\* str.split(): the maximal runs of non-whitespace characters
RECURSIVE SplitWs(_)
SplitWs(s) ==
    LET t == LStrip(s)
        e == Min({j \in 1..(Len(t) + 1) : j = Len(t) + 1 \/ Ch(t, j) \in Whitespace})
    IN  IF t = "" THEN <<>> ELSE <<SubSeq(t, 1, e - 1)>> \o SplitWs(From(t, e))

\* re.split(r'[>=<~!]', line)[0]: the text before the first operator character
BeforeOperator(line) ==
    LET ops == {j \in 1..Len(line) : Ch(line, j) \in {">", "=", "<", "~", "!"}}
    IN  IF ops = {} THEN line ELSE SubSeq(line, 1, Min(ops) - 1)

\* str.replace(old, new), for any old: an empty old with an empty new
\* returns s
PyReplace(s, old, new) == IF old = "" /\ new = "" THEN s ELSE Replace(s, old, new)

\* the fold of a parser's per-line step over the lines of a manifest;
\* Step(st, line) gives the next [raised, deps, section]
RECURSIVE FoldLines(_, _, _, _)
FoldLines(Step(_, _), st, lines, i) ==
    IF i > Len(lines) \/ st.raised THEN st
    ELSE FoldLines(Step, Step(st, lines[i]), lines, i + 1)

ParseStart == [raised |-> FALSE, deps |-> <<>>, section |-> ""]

\* what a parser returns after its loop ended in state st
ParserResult(st) == [raised |-> st.raised, deps |-> st.deps]

\* version = line.replace(name_version, '').strip() or "*"
PipVersion(rest) == IF rest = "" THEN "*" ELSE rest

PipDep(line, name_version) ==
    Dep(name_version, PipVersion(Strip(PyReplace(line, name_version, ""))), "pip", FALSE)

PipStripped(st, line) ==
    IF line # "" /\ ~StartsWith(line, "#")
    THEN [st EXCEPT !.deps = Append(@, PipDep(line, Strip(BeforeOperator(line))))]
    ELSE st

PipLine(st, raw) == PipStripped(st, Strip(raw))

parse_pip_dependencies(content) ==
    ParserResult(FoldLines(PipLine, ParseStart, Split(content, "\n"), 1))

\* name = line.split('=')[0], version = line.split('=')[1]: an index past
\* the parts raises IndexError
KeyValueParts(st, parts, type, is_dev) ==
    IF Len(parts) < 2 THEN [st EXCEPT !.raised = TRUE]
    ELSE [st EXCEPT !.deps = Append(@, Dep(Strip(parts[1]),
                                           Replace(Strip(parts[2]), "\"", ""),
                                           type, is_dev))]

KeyValueDep(st, line, type, is_dev) == KeyValueParts(st, Split(line, "="), type, is_dev)

PipfileStripped(st, line) ==
    IF StartsWith(line, "[") /\ EndsWith(line, "]")
    THEN [st EXCEPT !.section = SubSeq(line, 2, Len(line) - 1)]
    ELSE IF Contains(line, "=") /\ st.section \in {"packages", "dev-packages"}
    THEN KeyValueDep(st, line, "pipenv", st.section = "dev-packages")
    ELSE st

PipfileLine(st, raw) == PipfileStripped(st, Strip(raw))

parse_pipfile_dependencies(content) ==
    ParserResult(FoldLines(PipfileLine, ParseStart, Split(content, "\n"), 1))

\* section is "in" while in_dependencies is True
\* a Cargo scanner that collects under every header that names dependencies
CargoStripped_AnyDependencies(st, line) ==
    IF StartsWith(line, "[")
    THEN [st EXCEPT !.section = IF Contains(line, "dependencies") THEN "in" ELSE ""]
    ELSE IF st.section = "in" /\ Contains(line, "=")
    THEN KeyValueDep(st, line, "cargo", FALSE)
    ELSE st

CargoStripped(st, line) ==
    IF line = "[dependencies]" THEN [st EXCEPT !.section = "in"]
    ELSE IF StartsWith(line, "[") /\ line # "[dependencies]"
    THEN [st EXCEPT !.section = ""]
    ELSE IF st.section = "in" /\ Contains(line, "=")
    THEN KeyValueDep(st, line, "cargo", FALSE)
    ELSE st

CargoLine(st, raw) == CargoStripped(st, Strip(raw))

parse_cargo_dependencies(content) ==
    ParserResult(FoldLines(CargoLine, ParseStart, Split(content, "\n"), 1))

\* parts = line.replace('require', '').strip().split()
GoParts(st, parts) ==
    IF Len(parts) >= 2
    THEN [st EXCEPT !.deps = Append(@, Dep(parts[1], parts[2], "go", FALSE))]
    ELSE st

GoStripped(st, line) ==
    IF \/ Contains(line, "require")
       \/ (Contains(line, " v") /\ ~StartsWith(line, "module") /\ ~StartsWith(line, "go "))
    THEN GoParts(st, SplitWs(Strip(Replace(line, "require", ""))))
    ELSE st

GoLine(st, raw) == GoStripped(st, Strip(raw))

parse_go_dependencies(content) ==
    ParserResult(FoldLines(GoLine, ParseStart, Split(content, "\n"), 1))

NotLt == Cls("not", "<", "+")

artifact_pattern ==
    Lit("<groupId>") \o NotLt \o Lit("</groupId>") \o OptSp
        \o Lit("<artifactId>") \o NotLt \o Lit("</artifactId>") \o OptSp
        \o Lit("<version>") \o NotLt \o Lit("</version>")

\* the text of the group that follows the first `open` at or after position i:
\* [^<]+ ends at the next "<"
GroupAfter(s, open, i) ==
    LET b == FindFrom(s, open, i) + Len(open)
    IN  SubSeq(s, b, FindFrom(s, "<", b) - 1)

\* the records of the matches that start at the positions starts
MavenDeps(content, starts) ==
    [k \in 1..Len(starts) |->
        Dep(GroupAfter(content, "<groupId>", starts[k]) \o ":"
                \o GroupAfter(content, "<artifactId>", starts[k]),
            GroupAfter(content, "<version>", starts[k]),
            "maven", FALSE)]

parse_maven_dependencies(content) ==
    Returned(MavenDeps(content, FindAllFrom(artifact_pattern, content, 1)))

\* self.package_managers, in insertion order
package_managers ==
    <<"package.json", "requirements.txt", "Pipfile", "Cargo.toml", "go.mod", "pom.xml",
      "composer.json">>

\* the call parser(content) of the registry entry file_name
Parse(file_name, content) ==
    CASE file_name = "package.json"     -> parse_npm_dependencies(content)
      [] file_name = "requirements.txt" -> parse_pip_dependencies(content)
      [] file_name = "Pipfile"          -> parse_pipfile_dependencies(content)
      [] file_name = "Cargo.toml"       -> parse_cargo_dependencies(content)
      [] file_name = "go.mod"           -> parse_go_dependencies(content)
      [] file_name = "pom.xml"          -> parse_maven_dependencies(content)
      [] file_name = "composer.json"    -> parse_composer_dependencies(content)

(***************************************************************************)
(* class TechnologyDetector.  A pattern is kept as its text (raw), which   *)
(* the dependency-name test reads, and as the regular expression that      *)
(* text compiles to (re).  Confidences are in tenths.                      *)
(***************************************************************************)

Pat(raw, re) == [raw |-> raw, re |-> re]

\* a pattern without regular-expression syntax
Plain(str) == Pat(str, Lit(str))

Quote == Cls("in", "'\"", "1")

AnyRun == Cls("any", "", "*")

Tech(name, category, patterns) ==
    [name |-> name, category |-> category, patterns |-> patterns]

\* self.technology_patterns, flattened in the order the dict is iterated
technology_patterns ==
    <<Tech("React", "frameworks",
           <<Pat("import.*react", Lit("import") \o AnyRun \o Lit("react")),
             Pat("from ['\"]react['\"]", Lit("from ") \o Quote \o Lit("react") \o Quote),
             Plain("react")>>),
      Tech("Angular", "frameworks",
           <<Plain("@angular"), Pat("ng\\.", Lit("ng.")), Plain("angular")>>),
      Tech("Vue", "frameworks",
           <<Pat("import.*vue", Lit("import") \o AnyRun \o Lit("vue")),
             Pat("from ['\"]vue['\"]", Lit("from ") \o Quote \o Lit("vue") \o Quote),
             Plain("vue")>>),
      Tech("Django", "frameworks",
           <<Plain("from django"), Plain("import django"), Plain("django")>>),
      Tech("Flask", "frameworks",
           <<Plain("from flask"), Plain("import flask"), Plain("flask")>>),
      Tech("Express", "frameworks",
           <<Pat("express\\(\\)", Lit("express()")),
             Pat("require\\(['\"]express['\"]", Lit("require(") \o Quote \o Lit("express") \o Quote),
             Plain("express")>>),
      Tech("Spring Boot", "frameworks",
           <<Plain("@SpringBootApplication"), Plain("spring-boot"), Plain("spring")>>),
      Tech("Laravel", "frameworks",
           <<Plain("use Illuminate"), Plain("laravel/framework"), Plain("laravel")>>),
      Tech("MongoDB", "databases",
           <<Plain("mongodb://"), Plain("mongoose"), Plain("pymongo"), Plain("mongodb")>>),
      Tech("PostgreSQL", "databases",
           <<Plain("postgresql://"), Plain("psycopg2"), Plain("pg"), Plain("postgresql")>>),
      Tech("MySQL", "databases",
           <<Plain("mysql://"), Plain("mysql2"), Plain("pymysql"), Plain("mysql")>>),
      Tech("Redis", "databases",
           <<Plain("redis://"), Plain("redis"), Plain("jedis"), Plain("redis")>>),
      Tech("SQLite", "databases",
           <<Plain("sqlite3"), Plain("sqlite"), Plain("better-sqlite3"), Plain("sqlite")>>),
      Tech("Jest", "testing",
           <<Pat("describe\\(", Lit("describe(")), Pat("test\\(", Lit("test(")),
             Pat("it\\(", Lit("it(")), Plain("jest")>>),
      Tech("PyTest", "testing",
           <<Plain("def test_"), Plain("pytest"), Plain("pytest")>>),
      Tech("JUnit", "testing",
           <<Plain("@Test"), Plain("junit"), Plain("junit")>>),
      Tech("Mocha", "testing",
           <<Pat("describe\\(", Lit("describe(")), Pat("it\\(", Lit("it(")), Plain("mocha")>>)>>

TechIds == 1..Len(technology_patterns)

\* a pattern confidence without the cap at 1.0
PatternConfidence_Uncapped(pattern, content) ==
    IF StartsWith(pattern.raw, "\\.") THEN 0
    ELSE 3 * FindAllCount(pattern.re, content, TRUE)

\* the confidence one pattern gives for a content: min(len(matches) * 0.3, 1.0),
\* or 0 when the pattern is skipped or has no match
PatternConfidence(pattern, content) ==
    IF StartsWith(pattern.raw, "\\.") THEN 0
    ELSE Min({3 * FindAllCount(pattern.re, content, TRUE), 10})

\* _analyze_file_content: the <<technology, confidence>> entries of the
\* returned dict, in insertion order
\* the <<technology, confidence>> entries of the technologies whose
\* confidence in confs is positive, in the order of the technologies
Positive(confs) ==
    LET pick[n \in 0..Len(confs)] ==
            IF n = 0 THEN <<>>
            ELSE IF confs[n] > 0 THEN Append(pick[n - 1], <<n, confs[n]>>) ELSE pick[n - 1]
    IN  pick[Len(confs)]

\* max_confidence over the patterns of each technology of techs
FileConfidences(techs, content) ==
    [t \in 1..Len(techs) |->
        Max({0} \cup {PatternConfidence(techs[t].patterns[k], content) :
                         k \in 1..Len(techs[t].patterns)})]

analyze_file_content(content) == Eval(Positive, FileConfidences(technology_patterns, content))

\* _analyze_dependency: 0.8 for every technology one of whose patterns
\* occurs, lower-cased, in the lower-cased name
DependencyConfidences(techs, dep_lower) ==
    [t \in 1..Len(techs) |->
        IF \E k \in 1..Len(techs[t].patterns) :
               Contains(dep_lower, Lower(techs[t].patterns[k].raw))
        THEN 8 ELSE 0]

analyze_dependency(dependency_name) ==
    Eval(LAMBDA dep_lower : Positive(DependencyConfidences(technology_patterns, dep_lower)),
         Lower(dependency_name))

\* _get_technology_category: the first category that holds the name
CategoryIn(techs, tech_name) ==
    IF \E t \in 1..Len(techs) : techs[t].name = tech_name
    THEN techs[Min({t \in 1..Len(techs) : techs[t].name = tech_name})].category
    ELSE "other"

get_technology_category(tech_name) == CategoryIn(technology_patterns, tech_name)

\* a scoring loop that stops after the first file, or dependency, with evidence
FlattenSeq_FirstOnly(seqs, i) ==
    IF \E k \in i..Len(seqs) : seqs[k] # <<>>
    THEN seqs[Min({k \in i..Len(seqs) : seqs[k] # <<>>})]
    ELSE <<>>

RECURSIVE FlattenSeq(_, _)
FlattenSeq(seqs, i) == IF i > Len(seqs) THEN <<>> ELSE seqs[i] \o FlattenSeq(seqs, i + 1)

\* a merge that adds the confidences of a name instead of keeping the largest
MaxMergeOf_Sum(evidence) ==
    LET firsts == {k \in 1..Len(evidence) :
                      \A j \in 1..(k - 1) : evidence[j][1] # evidence[k][1]}
        total[n \in 0..Len(evidence)] ==
            IF n = 0 THEN [t \in TechIds |-> 0]
            ELSE [total[n - 1] EXCEPT ![evidence[n][1]] = @ + evidence[n][2]]
        pick[n \in 0..Len(evidence)] ==
            IF n = 0 THEN <<>>
            ELSE IF n \in firsts
                 THEN Append(pick[n - 1], <<evidence[n][1], total[Len(evidence)][evidence[n][1]]>>)
                 ELSE pick[n - 1]
    IN  pick[Len(evidence)]

\* detected[tech_name] = max(detected.get(tech_name, 0), confidence) over the
\* evidence in order: a name keeps the place of its first evidence and the
\* largest confidence
MaxMergeOf(evidence) ==
    LET firsts == {k \in 1..Len(evidence) :
                      \A j \in 1..(k - 1) : evidence[j][1] # evidence[k][1]}
        best(t) == Max({evidence[j][2] : j \in {i \in 1..Len(evidence) : evidence[i][1] = t}})
        pick[n \in 0..Len(evidence)] ==
            IF n = 0 THEN <<>>
            ELSE IF n \in firsts
                 THEN Append(pick[n - 1], <<evidence[n][1], best(evidence[n][1])>>)
                 ELSE pick[n - 1]
    IN  pick[Len(evidence)]

MaxMerge(evidence) == Eval(MaxMergeOf, evidence)

\* the technologies list of a detected dict: the entries above the threshold
\* Technology(name, category, confidence) of the entry <<technology, confidence>>
Technology(tech_name, confidence) ==
    [name |-> tech_name, category |-> get_technology_category(tech_name),
     confidence |-> confidence]

TechnologiesOf(techs, detected) ==
    LET pick[n \in 0..Len(detected)] ==
            IF n = 0 THEN <<>>
            ELSE IF detected[n][2] > 1
                 THEN Append(pick[n - 1], Technology(techs[detected[n][1]].name, detected[n][2]))
                 ELSE pick[n - 1]
    IN  pick[Len(detected)]

Technologies(detected) == TechnologiesOf(technology_patterns, detected)

(***************************************************************************)
(* class GitHubAPIClient, and the remote repository it reads.              *)
(*                                                                         *)
(* The remote repository is a sequence of entries [path, type, size,       *)
(* text]: what the tree request lists (path, type, size) and what a        *)
(* content request for the path returns (text).  The size is the number    *)
(* the tree reports; it is not tied to the length of text, so that sizes   *)
(* around the ceiling need no text of that length.                         *)
(***************************************************************************)

Entry(path, type, size, text) == [path |-> path, type |-> type, size |-> size, text |-> text]

\* _parse_repo_url: the parts, or <<>> when it raises ValueError
parse_repo_url(url) ==
    LET parts == Split(PyReplace(url, "https://github.com/", ""), "/")
    IN  IF Len(parts) < 2 THEN <<>> ELSE <<parts[1], parts[2]>>

\* whether the repository has a blob at path
Present(remote, path) ==
    \E k \in 1..Len(remote) : remote[k].path = path /\ remote[k].type = "blob"

\* the decoded content the contents request returns for a present path
RemoteText(remote, path) ==
    remote[Min({k \in 1..Len(remote) : remote[k].path = path /\ remote[k].type = "blob"})].text

\* fetch_file_content: the request raises (answer "fail": transport error,
\* "notfound": HTTP 404) or returns the content; any exception gives ""
fetch_file_content(remote, file_path, answer) ==
    IF answer = "ok" THEN RemoteText(remote, file_path) ELSE ""

\* data.get("tree", []) of a successful tree request
RemoteTree(remote) ==
    [k \in 1..Len(remote) |->
        [path |-> remote[k].path, type |-> remote[k].type, size |-> remote[k].size]]

readme_files == <<"README.md", "readme.md", "README.rst", "README.txt", "README">>

\* what response.json() of the repository request holds
RepoInfo ==
    [name |-> "r", description |-> "demo", language |-> "Python", stars |-> 3, forks |-> 1,
     created_at |-> "2024-01-01", updated_at |-> "2024-02-01", size |-> 12,
     topics |-> <<"docs">>]

(***************************************************************************)
(* class Repository                                                        *)
(***************************************************************************)

Repository(url) ==
    [url |-> url, name |-> "", description |-> "", language |-> "", stars |-> 0, forks |-> 0,
     created_at |-> "", updated_at |-> "", size |-> 0, topics |-> <<>>,
     readme_content |-> "", files |-> <<>>, dependencies |-> <<>>, technologies |-> <<>>,
     api_endpoints |-> <<>>, analysis_complete |-> FALSE]

(***************************************************************************)
(* The path filter of GitHubCodebaseAnalyzer.analyze_repository            *)
(***************************************************************************)

excluded_extensions ==
    {".png", ".jpg", ".jpeg", ".gif", ".ico", ".svg", ".pdf", ".zip", ".tar", ".gz", ".exe",
     ".bin"}

MAX_FILE_SIZE == 100000

max_files == 50

text_extensions == {"txt", "md", "yml", "yaml", "json", "xml"}

\* the ignore patterns of a .gitignore content
StrippedLines(lines) == {Strip(lines[k]) : k \in 1..Len(lines)}

IgnorePatterns(gitignore_content) ==
    {line \in StrippedLines(SplitLines(gitignore_content)) : line # "" /\ ~StartsWith(line, "#")}

\* a directory test that looks for the pattern anywhere in the path
PatternMatches_Substring(pattern, file_path, file_name) ==
    \/ EndsWith(pattern, "/") /\ Contains(file_path, RStripChar(pattern, "/"))
    \/ StartsWith(pattern, "*.") /\ EndsWith(file_name, LStripChar(pattern, "*"))
    \/ pattern = file_name \/ pattern = file_path

\* the three tests of one pattern against one file
PatternMatches(pattern, file_path, file_name) ==
    \/ EndsWith(pattern, "/") /\ StartsWith(file_path, RStripChar(pattern, "/"))
    \/ StartsWith(pattern, "*.") /\ EndsWith(file_name, LStripChar(pattern, "*"))
    \/ pattern = file_name \/ pattern = file_path

\* the orders in which a set can be iterated
Orders(S) ==
    {f \in [1..Cardinality(S) -> S] : \A i, j \in 1..Cardinality(S) : i # j => f[i] # f[j]}

\* a filter with no size test
WithinSize_Unbounded(size) == TRUE

\* the size test of the filter
WithinSize(size) == size < MAX_FILE_SIZE

\* a filter that tests the extension first, then the size, and the patterns
\* only for a blob that passed both
FilterItem_ExtensionFirst(item, order) ==
    LET file_path == item.path
        file_name == BaseName(file_path)
        extension == Lower(PathSuffix(file_name))
        passed == extension \notin excluded_extensions /\ WithinSize(item.size)
        hits == {k \in 1..Len(order) : PatternMatches(order[k], file_path, file_name)}
        ignored == passed /\ hits # {}
    IN  IF item.type # "blob"
        THEN [keep |-> FALSE, blob |-> FALSE, ignored |-> FALSE, evals |-> 0,
              size_tested |-> FALSE, ext_tested |-> FALSE]
        ELSE [keep |-> passed /\ ~ignored,
              blob |-> TRUE,
              ignored |-> ignored,
              evals |-> IF ~passed THEN 0 ELSE IF ignored THEN Min(hits) ELSE Len(order),
              size_tested |-> extension \notin excluded_extensions,
              ext_tested |-> TRUE]

\* the filter on one tree item, with the patterns iterated in `order` up to
\* the first match: what it decides (keep) and what it evaluates on the way
\* (evals: the number of patterns tested; size_tested and ext_tested: whether
\* `and` reaches the size and the extension test)
FilterItem(item, order) ==
    LET file_path == item.path
        file_name == BaseName(file_path)
        extension == Lower(PathSuffix(file_name))
        hits == {k \in 1..Len(order) : PatternMatches(order[k], file_path, file_name)}
        ignored == hits # {}
    IN  IF item.type # "blob"
        THEN [keep |-> FALSE, blob |-> FALSE, ignored |-> FALSE, evals |-> 0,
              size_tested |-> FALSE, ext_tested |-> FALSE]
        ELSE [keep |-> ~ignored /\ WithinSize(item.size) /\ extension \notin excluded_extensions,
              blob |-> TRUE,
              ignored |-> ignored,
              evals |-> IF ignored THEN Min(hits) ELSE Len(order),
              size_tested |-> ~ignored,
              ext_tested |-> ~ignored /\ WithinSize(item.size)]

\* the subsequence of s at the positions in keep
Select(s, keep) ==
    LET pick[n \in 0..Len(s)] ==
            IF n = 0 THEN <<>>
            ELSE IF n \in keep THEN Append(pick[n - 1], s[n]) ELSE pick[n - 1]
    IN  pick[Len(s)]

\* a limit that truncates nothing
CapFiles_Unbounded(files) == files

\* files_to_analyze[:max_files] when longer than max_files
CapFiles(files) == IF Len(files) > max_files THEN SubSeq(files, 1, max_files) ELSE files

\* a per-file loop that fetches the files of a recognized language only
FetchesContent_RecognizedOnly(file_obj) == file_obj.language # "Unknown"

\* whether the per-file loop fetches the content of file_obj
FetchesContent(file_obj) ==
    file_obj.language # "Unknown" \/ file_obj.extension \in text_extensions

\* the File the per-file loop builds for a tree item, before any fetch
NewFile(item) ==
    LET file_name == BaseName(item.path)
    IN  File(item.path, file_name, LStripChar(Lower(PathSuffix(file_name)), "."), item.size, "")

\* the File the per-file loop appends, given the content the fetch returned
\* ("" when no fetch is made)
AnalyzedFile(item, content) ==
    Eval(LAMBDA file_obj : IF FetchesContent(file_obj) /\ content # ""
                           THEN analyze_file(file_obj) ELSE file_obj,
         [NewFile(item) EXCEPT !.content = content])

(***************************************************************************)
(* The repositories and identifiers a run is checked on                    *)
(***************************************************************************)

\* the longest body of a repository built from a pool of entries
MaxTreeLen == 2

\* the most manifests a repository holds
MaxManifests == 2

\* the most content requests of one run that fail in transport
MaxFetchFailures == 1

\* the long repositories have max_files - CapMargin .. max_files + CapMargin
\* eligible entries
CapMargin == 1

RECURSIVE SeqsUpTo(_, _)
SeqsUpTo(S, n) ==
    IF n = 0 THEN {<<>>}
    ELSE LET shorter == SeqsUpTo(S, n - 1)
         IN  shorter \cup {Append(s, x) : s \in {t \in shorter : Len(t) = n - 1}, x \in S}

ReadmeEntry == Entry("README.md", "blob", 40, "# r\nUses flask and redis.\n")

GitignoreEntry == Entry(".gitignore", "blob", 30, "# build\ndist/\n\n*.dat\n")

\* entries the path filter tells apart
FilterPool ==
    {Entry("dist/bundle.js", "blob", 300, "function f() {}\n"),
     Entry("src/dist/file.js", "blob", 99999,
           "const g = (x) => x;\nit(1); it(2); it(3); it(4);\n"),
     Entry("lib/big.ts", "blob", 100000, "class B {}\n"),
     Entry("core.dat", "blob", 100001, "raw"),
     Entry("logo.PNG", "blob", 10, "png"),
     Entry("distribution.md", "blob", 50, "# d\n"),
     Entry("src", "tree", 0, "")}

RECURSIVE Repeated(_, _)
Repeated(s, n) ==
    IF n = 0 THEN "" ELSE IF n = 1 THEN s
    ELSE Repeated(s, n \div 2) \o Repeated(s, n - n \div 2)

\* a text of 1000 lines with five occurrences of if, three of for and no
\* other control keyword
ScenarioText == "if a: b\nIF c\nif if\nelif\nFor x\nfor for" \o Repeated("\n", 994)

\* entries the per-file stage tells apart
FilePool ==
    {Entry("app.py", "blob", 120,
           "import flask\nclass A:\n    def m(self): pass\nif x:\n    pass\nasync def h(): pass\n"),
     Entry("bad.py", "blob", 90, "def f(:\nclass C: pass\nif x: pass\n"),
     Entry("huge.md", "blob", 100001, "# doc\n"),
     Entry("LICENSE", "blob", 1000, "MIT"),
     Entry("empty.txt", "blob", 0, "")}

\* manifests, well-formed and not
ManifestPool ==
    {Entry("package.json", "blob", 80,
           "{\"dependencies\": {\"react\": \"^18\"}, \"devDependencies\": {\"jest\": \"*\"}}"),
     Entry("package.json", "blob", 20, "{\"dependencies\": "),
     Entry("package.json", "blob", 70,
           "{\"dependencies\": {\"react\": \"^18\"}, \"devDependencies\": \"all\"}"),
     Entry("requirements.txt", "blob", 30, "flask>=2.0\n# comment\nrequests\n"),
     Entry("requirements.txt", "blob", 20, "redis>=4 # redis-py\n"),
     Entry("Pipfile", "blob", 60, "[packages]\nflask = \"==2.0\"\n[dev-packages]\npytest = \"*\"\n"),
     Entry("Cargo.toml", "blob", 160,
           "edition = \"2021\"\n[package]\nname = \"x\"\n[dependencies]\nserde = \"1.0\"\n"
           \o "[dev-dependencies]\nrand = \"0.8\"\n[dependencies.x]\nv = \"1\"\n"
           \o "[dependencies]\nlog = \"0.4\"\n"),
     Entry("go.mod", "blob", 60, "module example.com/require-kit\ngo 1.20\nrequire (\n  github.com/a/b v1.2.3\n)\n"),
     Entry("pom.xml", "blob", 90,
           "<groupId>org.x</groupId>\n<artifactId>junit</artifactId>\n<version>4</version>"),
     Entry("composer.json", "blob", 40, "{\"require\": {\"laravel/framework\": \"9\"}}"),
     Entry("composer.json", "blob", 40, "[\"require\"]"),
     Entry("composer.json", "blob", 40, "{\"require\": \"all\"}")}

\* the manifests of a repository: at most MaxManifests, one per name, in the
\* order of the registry
ManifestSets ==
    {S \in SUBSET ManifestPool :
        /\ Cardinality(S) <= MaxManifests
        /\ \A a, b \in S : a.path = b.path => a = b}

ManifestBody(S) ==
    LET pick[n \in 0..Len(package_managers)] ==
            IF n = 0 THEN <<>>
            ELSE IF \E e \in S : e.path = package_managers[n]
                 THEN Append(pick[n - 1], CHOOSE e \in S : e.path = package_managers[n])
                 ELSE pick[n - 1]
    IN  pick[Len(package_managers)]

Digit(n) == Ch("0123456789", n + 1)

\* the k-th entry of a long repository: the first is a text of 1000 lines,
\* every fifth is a Python source, every seventh is above the size ceiling,
\* the others have no known extension
LongEntry(k) ==
    LET id == Digit(k \div 10) \o Digit(k % 10)
    IN  IF k = 1 THEN Entry("docs/notes.txt", "blob", 1031, ScenarioText)
        ELSE IF k % 7 = 0 THEN Entry("data/f" \o id \o ".csv", "blob", MAX_FILE_SIZE + k, "a,b\n")
        ELSE IF k % 5 = 0 THEN Entry("src/m" \o id \o ".py", "blob", 200 + k, "def f(): pass\n")
        ELSE Entry("data/f" \o id \o ".csv", "blob", 200 + k, "a,b\n")

\* the long repository with n entries under the size ceiling
LongBody(n) == LET total == CHOOSE t \in n..(2 * n) : t - (t \div 7) = n /\ t % 7 # 0
               IN  [k \in 1..total |-> LongEntry(k)]

Remotes ==
    {<<>>}
    \cup {<<ReadmeEntry, GitignoreEntry>> \o body : body \in SeqsUpTo(FilterPool, MaxTreeLen)}
    \cup {<<ReadmeEntry>> \o body : body \in SeqsUpTo(FilePool, MaxTreeLen)}
    \cup {body : body \in SeqsUpTo(FilePool, 1)}
    \cup {<<ReadmeEntry>> \o ManifestBody(S) : S \in ManifestSets}
    \cup {<<ReadmeEntry>> \o LongBody(n) :
             n \in (max_files - CapMargin)..(max_files + CapMargin)}

Urls == {"https://github.com/o/r", "https://github.com/o"}

(***************************************************************************)
(* The analyses of the texts above, computed once.  Each table holds the   *)
(* value of the operator it names for the entries of the repositories; an  *)
(* argument outside a table is computed by the operator itself.            *)
(***************************************************************************)

KnownEntries == UNION {{r[k] : k \in 1..Len(r)} : r \in Remotes}

\* an entry as a content request that failed, or was not made, leaves it
Blank(e) == Entry(e.path, e.type, e.size, "")

Item(e) == [path |-> e.path, type |-> e.type, size |-> e.size]

FileEvidenceTable ==
    Tabulated([c \in {e.text : e \in KnownEntries} |-> analyze_file_content(c)])

AnalyzedFileTable ==
    Tabulated([e \in KnownEntries \cup {Blank(x) : x \in KnownEntries}
                  |-> AnalyzedFile(Item(e), e.text)])

ParseTable ==
    Tabulated([m \in {<<e.path, e.text>> : e \in {x \in KnownEntries :
                    \E k \in 1..Len(package_managers) : package_managers[k] = x.path}}
            |-> Parse(m[1], m[2])])

\* the dependency names the manifests of the repositories give
KnownDependencyNames ==
    UNION {{ParseTable[m].deps[k].name : k \in 1..Len(ParseTable[m].deps)} :
              m \in DOMAIN ParseTable}

DependencyEvidenceTable ==
    Tabulated([n \in KnownDependencyNames |-> analyze_dependency(n)])

IgnorePatternsTable ==
    Tabulated([c \in {e.text : e \in {x \in KnownEntries : x.path = ".gitignore"}} \cup {""}
            |-> IgnorePatterns(c)])

\* the orders in which the ignore patterns of a repository can be iterated
KnownPatternOrders == UNION {Orders(IgnorePatternsTable[c]) : c \in DOMAIN IgnorePatternsTable}

FilterTable ==
    Tabulated([x \in {Item(e) : e \in KnownEntries} \X KnownPatternOrders
                  |-> FilterItem(x[1], x[2])])

FetchesContentTable ==
    Tabulated([i \in {Item(e) : e \in KnownEntries} |-> FetchesContent(NewFile(i))])

\* _analyze_file_content(content)
FileEvidence(content) == FileEvidenceTable[content]

\* _analyze_dependency(dep["name"])
DependencyEvidence(dependency_name) == DependencyEvidenceTable[dependency_name]

\* the ignore patterns of Step 2.5 for the content of .gitignore
StepIgnorePatterns(gitignore_content) == IgnorePatternsTable[gitignore_content]

\* the filter's decision on a tree item
Filtered(item, order) == FilterTable[<<item, order>>]

\* whether the per-file loop fetches the content of the File built for item
FetchesItem(item) == FetchesContentTable[item]

\* the File appended for item, given the content the fetch returned
AppendedFile(item, content) ==
    AnalyzedFileTable[Entry(item.path, item.type, item.size, content)]

\* parser(content) for the registry entry file_name
Parsed(file_name, content) == ParseTable[<<file_name, content>>]

\* detect_technologies(repo): the technologies list
detect_technologies(files, dependencies) ==
    LET from_files == [k \in 1..Len(files) |->
                          IF files[k].content # "" THEN FileEvidence(files[k].content)
                          ELSE <<>>]
        from_deps == [k \in 1..Len(dependencies) |-> DependencyEvidence(dependencies[k].name)]
    IN  Eval(Technologies, MaxMerge(FlattenSeq(from_files, 1) \o FlattenSeq(from_deps, 1)))

(***************************************************************************)
(* GitHubCodebaseAnalyzer.analyze_repository, one step per request and     *)
(* per stage                                                               *)
(***************************************************************************)

VARIABLES
    repo_url,          \* the argument of analyze_repository
    remote,            \* the repository behind repo_url
    pc,                \* the stage the run is in
    repo,              \* the Repository being built; the return value
    readme_i,          \* fetch_readme: index of the next candidate name
    ignore_patterns,   \* the set built from .gitignore
    file_tree,         \* the list fetch_repository_tree returned
    files_to_analyze,  \* the filtered, then capped, candidates
    file_i,            \* index of the next candidate of the per-file loop
    dependencies,      \* DependencyAnalyzer.analyze_repository: the local list
    manifest_i,        \* index of the next entry of package_managers
    requests,          \* every HTTP request issued, in order
    failures,          \* content requests that failed in transport
    stages,            \* the stages entered, in order
    filter_trace,      \* FilterItem of every tree item, in tree order
    parse_trace        \* the outcome of every manifest, in registry order

vars ==
    <<repo_url, remote, pc, repo, readme_i, ignore_patterns, file_tree, files_to_analyze,
      file_i, dependencies, manifest_i, requests, failures, stages, filter_trace, parse_trace>>

\* a request: index is the position, in the loop that issues it, of the
\* candidate it is for (0 outside a loop)
Request(op, arg, answer, index) ==
    [op |-> op, arg |-> arg, answer |-> answer, stage |-> pc, index |-> index]

\* the answers a content request for path can get
ContentAnswers(path) ==
    IF ~Present(remote, path) THEN {"notfound"}
    ELSE IF failures < MaxFetchFailures THEN {"ok", "fail"}
    ELSE {"ok"}

Enter(stage) == pc' = stage /\ stages' = Append(stages, stage)

Init ==
    /\ repo_url \in Urls
    /\ remote \in Remotes
    /\ pc = "idle"
    /\ repo = Repository("")
    /\ readme_i = 1
    /\ ignore_patterns = {}
    /\ file_tree = <<>>
    /\ files_to_analyze = <<>>
    /\ file_i = 1
    /\ dependencies = <<>>
    /\ manifest_i = 1
    /\ requests = <<>>
    /\ failures = 0
    /\ stages = <<>>
    /\ filter_trace = <<>>
    /\ parse_trace = <<>>

\* the call: repo = Repository(repo_url)
Start ==
    /\ pc = "idle"
    /\ repo' = Repository(repo_url)
    /\ Enter("FetchMetadata")
    /\ UNCHANGED <<repo_url, remote, readme_i, ignore_patterns, file_tree, files_to_analyze,
                   file_i, dependencies, manifest_i, requests, failures, filter_trace,
                   parse_trace>>

\* the metadata that a successful fetch_repository_info copies into repo
WithInfo(r, info) ==
    [r EXCEPT !.name = info.name, !.description = info.description,
              !.language = info.language, !.stars = info.stars, !.forks = info.forks,
              !.created_at = info.created_at, !.updated_at = info.updated_at,
              !.size = info.size, !.topics = info.topics]

\* a Step 1 that goes on to the README whatever fetch_repository_info answers
FetchMetadata_IgnoresError ==
    /\ pc = "FetchMetadata"
    /\ \E answer \in {"ok", "fail"} :
          /\ requests' = Append(requests, Request("info", "", answer, 0))
          /\ repo' = IF answer = "ok" THEN WithInfo(repo, RepoInfo) ELSE repo
    /\ Enter("FetchReadme")
    /\ UNCHANGED <<repo_url, remote, readme_i, ignore_patterns, file_tree, files_to_analyze,
                   file_i, dependencies, manifest_i, failures, filter_trace, parse_trace>>

\* Step 1: fetch_repository_info; "error" in repo_info returns repo as it is.
\* An identifier _parse_repo_url rejects gives the error without a request.
FetchMetadata ==
    /\ pc = "FetchMetadata"
    /\ IF parse_repo_url(repo_url) = <<>>
       THEN /\ Enter("returned")
            /\ UNCHANGED <<repo, requests>>
       ELSE \E answer \in {"ok", "fail"} :
               /\ requests' = Append(requests, Request("info", "", answer, 0))
               /\ IF answer = "ok"
                  THEN repo' = WithInfo(repo, RepoInfo) /\ Enter("FetchReadme")
                  ELSE UNCHANGED repo /\ Enter("returned")
    /\ UNCHANGED <<repo_url, remote, readme_i, ignore_patterns, file_tree, files_to_analyze,
                   file_i, dependencies, manifest_i, failures, filter_trace, parse_trace>>

\* Step 2: fetch_readme, one candidate name per step
FetchReadme ==
    /\ pc = "FetchReadme"
    /\ \E answer \in ContentAnswers(readme_files[readme_i]) :
          LET content == fetch_file_content(remote, readme_files[readme_i], answer)
          IN  /\ requests' = Append(requests, Request("content", readme_files[readme_i], answer, readme_i))
              /\ failures' = failures + (IF answer = "fail" THEN 1 ELSE 0)
              /\ IF content # ""
                 THEN /\ repo' = [repo EXCEPT !.readme_content = content]
                      /\ Enter("FetchIgnore")
                      /\ UNCHANGED readme_i
                 ELSE IF readme_i = Len(readme_files)
                 THEN /\ repo' = [repo EXCEPT !.readme_content = "No README file found"]
                      /\ Enter("FetchIgnore")
                      /\ UNCHANGED readme_i
                 ELSE /\ readme_i' = readme_i + 1
                      /\ UNCHANGED <<repo, pc, stages>>
    /\ UNCHANGED <<repo_url, remote, ignore_patterns, file_tree, files_to_analyze, file_i,
                   dependencies, manifest_i, filter_trace, parse_trace>>

\* Step 2.5: fetch .gitignore and build the ignore patterns
FetchIgnore ==
    /\ pc = "FetchIgnore"
    /\ \E answer \in ContentAnswers(".gitignore") :
          /\ requests' = Append(requests, Request("content", ".gitignore", answer, 0))
          /\ failures' = failures + (IF answer = "fail" THEN 1 ELSE 0)
          /\ ignore_patterns' =
                 StepIgnorePatterns(fetch_file_content(remote, ".gitignore", answer))
    /\ Enter("FetchTree")
    /\ UNCHANGED <<repo_url, remote, repo, readme_i, file_tree, files_to_analyze, file_i,
                   dependencies, manifest_i, filter_trace, parse_trace>>

\* a Step 3 without the return on an empty tree
AfterTree_Continues(tree) ==
    /\ file_tree' = tree
    /\ Enter("FilterCandidates")

\* what follows fetch_repository_tree's return: `if not file_tree: return repo`
AfterTree(tree) ==
    /\ file_tree' = tree
    /\ IF tree = <<>> THEN Enter("returned") ELSE Enter("FilterCandidates")

\* Step 3: fetch_repository_tree(repo_url), the request for branch "main";
\* when it raises, the call recurses with branch "master"
FetchTree ==
    /\ pc = "FetchTree"
    /\ \E answer \in {"ok", "fail"} :
          /\ requests' = Append(requests, Request("tree", "main", answer, 0))
          /\ IF answer = "ok"
             THEN AfterTree(RemoteTree(remote))
             ELSE Enter("FetchTreeFallback") /\ UNCHANGED file_tree
    /\ UNCHANGED <<repo_url, remote, repo, readme_i, ignore_patterns, files_to_analyze, file_i,
                   dependencies, manifest_i, failures, filter_trace, parse_trace>>

\* a fallback that asks for "master" once more when the request fails
FetchTreeFallback_RetriesAgain ==
    /\ pc = "FetchTreeFallback"
    /\ \E answer \in {"ok", "fail"} :
          /\ requests' = Append(requests, Request("tree", "master", answer, 0))
          /\ IF answer = "fail" /\ requests[Len(requests)].arg = "main"
             THEN UNCHANGED <<pc, stages, file_tree>>
             ELSE AfterTree(IF answer = "ok" THEN RemoteTree(remote) ELSE <<>>)
    /\ UNCHANGED <<repo_url, remote, repo, readme_i, ignore_patterns, files_to_analyze, file_i,
                   dependencies, manifest_i, failures, filter_trace, parse_trace>>

\* fetch_repository_tree(repo_url, "master"): when it raises too, the result is []
FetchTreeFallback ==
    /\ pc = "FetchTreeFallback"
    /\ \E answer \in {"ok", "fail"} :
          /\ requests' = Append(requests, Request("tree", "master", answer, 0))
          /\ AfterTree(IF answer = "ok" THEN RemoteTree(remote) ELSE <<>>)
    /\ UNCHANGED <<repo_url, remote, repo, readme_i, ignore_patterns, files_to_analyze, file_i,
                   dependencies, manifest_i, failures, filter_trace, parse_trace>>

\* a Step 4 whose filter loop is followed by the per-file loop at once
FilterCandidates_SkipsCap ==
    /\ pc = "FilterCandidates"
    /\ \E order \in Orders(ignore_patterns) :
          /\ filter_trace' = [k \in 1..Len(file_tree) |-> FilterItem(file_tree[k], order)]
          /\ files_to_analyze' =
                 Select(file_tree, {k \in 1..Len(file_tree) : filter_trace'[k].keep})
    /\ file_i' = 1
    /\ Enter("AnalyzeFiles")
    /\ UNCHANGED <<repo_url, remote, repo, readme_i, ignore_patterns, file_tree,
                   dependencies, manifest_i, requests, failures, parse_trace>>

\* Step 4, the filter loop: the ignore patterns are a set, iterated in an
\* order the language does not fix
FilterCandidates ==
    /\ pc = "FilterCandidates"
    /\ \E order \in Orders(ignore_patterns) :
          /\ filter_trace' = [k \in 1..Len(file_tree) |-> Filtered(file_tree[k], order)]
          /\ files_to_analyze' =
                 Select(file_tree, {k \in 1..Len(file_tree) : filter_trace'[k].keep})
    /\ Enter("Cap")
    /\ UNCHANGED <<repo_url, remote, repo, readme_i, ignore_patterns, file_tree, file_i,
                   dependencies, manifest_i, requests, failures, parse_trace>>

\* Step 4, the limit on the number of files
Cap ==
    /\ pc = "Cap"
    /\ files_to_analyze' = CapFiles(files_to_analyze)
    /\ file_i' = 1
    /\ Enter("AnalyzeFiles")
    /\ UNCHANGED <<repo_url, remote, repo, readme_i, ignore_patterns, file_tree, dependencies,
                   manifest_i, requests, failures, filter_trace, parse_trace>>

\* a per-file loop that returns at the first content request that fails
AnalyzeFile_AbortsOnFailure ==
    /\ pc = "AnalyzeFiles"
    /\ file_i <= Len(files_to_analyze)
    /\ \E item \in {files_to_analyze[file_i]} :
          \E answer \in IF FetchesContent(NewFile(item)) THEN ContentAnswers(item.path)
                         ELSE {"none"} :
             /\ requests' = IF answer = "none" THEN requests
                            ELSE Append(requests, Request("content", item.path, answer, file_i))
             /\ failures' = failures + (IF answer = "fail" THEN 1 ELSE 0)
             /\ IF answer = "fail"
                THEN /\ Enter("returned")
                     /\ UNCHANGED <<repo, file_i>>
                ELSE /\ repo' = [repo EXCEPT !.files =
                            Append(@, AppendedFile(item,
                                                   fetch_file_content(remote, item.path, answer)))]
                     /\ file_i' = file_i + 1
                     /\ UNCHANGED <<pc, stages>>
    /\ UNCHANGED <<repo_url, remote, readme_i, ignore_patterns, file_tree, files_to_analyze,
                   dependencies, manifest_i, filter_trace, parse_trace>>

\* Step 4, one iteration of the per-file loop
AnalyzeFile ==
    /\ pc = "AnalyzeFiles"
    /\ file_i <= Len(files_to_analyze)
    /\ \E item \in {files_to_analyze[file_i]} :
          \E answer \in IF FetchesItem(item) THEN ContentAnswers(item.path)
                         ELSE {"none"} :
             /\ requests' = IF answer = "none" THEN requests
                            ELSE Append(requests, Request("content", item.path, answer, file_i))
             /\ failures' = failures + (IF answer = "fail" THEN 1 ELSE 0)
             /\ repo' = [repo EXCEPT !.files =
                            Append(@, AppendedFile(item,
                                                   fetch_file_content(remote, item.path, answer)))]
    /\ file_i' = file_i + 1
    /\ UNCHANGED <<repo_url, remote, pc, readme_i, ignore_patterns, file_tree, files_to_analyze,
                   dependencies, manifest_i, stages, filter_trace, parse_trace>>

\* the per-file loop ends; Step 5 starts with dependencies = []
FilesDone ==
    /\ pc = "AnalyzeFiles"
    /\ file_i > Len(files_to_analyze)
    /\ dependencies' = <<>>
    /\ manifest_i' = 1
    /\ Enter("ParseManifests")
    /\ UNCHANGED <<repo_url, remote, repo, readme_i, ignore_patterns, file_tree,
                   files_to_analyze, file_i, requests, failures, filter_trace, parse_trace>>

\* the outcome of one registry entry: parsed when a content came back and
\* the parser was called, raised when that call ended with an exception
Outcome(file_name, content) ==
    IF content = ""
    THEN [file_name |-> file_name, parsed |-> FALSE, raised |-> FALSE, deps |-> <<>>]
    ELSE [file_name |-> file_name, parsed |-> TRUE] @@ Parsed(file_name, content)

\* an extend whose list is lost when a parser raises
ExtendDependencies_DropsOnRaise(deps, outcome) ==
    IF ~outcome.parsed THEN deps
    ELSE IF outcome.raised THEN <<>>
    ELSE deps \o outcome.deps

\* dependencies.extend(deps) inside the try: nothing for an empty content,
\* nothing when the parser raised
ExtendDependencies(deps, outcome) ==
    IF ~outcome.parsed \/ outcome.raised THEN deps ELSE deps \o outcome.deps

\* a manifest loop whose parser exception leaves analyze_repository
ParseManifest_PropagatesRaise ==
    /\ pc = "ParseManifests"
    /\ manifest_i <= Len(package_managers)
    /\ LET file_name == package_managers[manifest_i]
       IN  \E answer \in ContentAnswers(file_name) :
              LET content == fetch_file_content(remote, file_name, answer)
              IN  /\ requests' = Append(requests, Request("content", file_name, answer, manifest_i))
                  /\ failures' = failures + (IF answer = "fail" THEN 1 ELSE 0)
                  /\ parse_trace' = Append(parse_trace, Outcome(file_name, content))
                  /\ dependencies' =
                         ExtendDependencies(dependencies, parse_trace'[Len(parse_trace')])
                  /\ IF parse_trace'[Len(parse_trace')].raised
                     THEN Enter("raised")
                     ELSE UNCHANGED <<pc, stages>>
    /\ manifest_i' = manifest_i + 1
    /\ UNCHANGED <<repo_url, remote, repo, readme_i, ignore_patterns, file_tree,
                   files_to_analyze, file_i, filter_trace>>

\* Step 5, one iteration of DependencyAnalyzer.analyze_repository's loop
ParseManifest ==
    /\ pc = "ParseManifests"
    /\ manifest_i <= Len(package_managers)
    /\ LET file_name == package_managers[manifest_i]
       IN  \E answer \in ContentAnswers(file_name) :
              LET content == fetch_file_content(remote, file_name, answer)
              IN  /\ requests' = Append(requests, Request("content", file_name, answer, manifest_i))
                  /\ failures' = failures + (IF answer = "fail" THEN 1 ELSE 0)
                  /\ parse_trace' = Append(parse_trace, Outcome(file_name, content))
                  /\ dependencies' =
                         ExtendDependencies(dependencies, parse_trace'[Len(parse_trace')])
    /\ manifest_i' = manifest_i + 1
    /\ UNCHANGED <<repo_url, remote, pc, repo, readme_i, ignore_patterns, file_tree,
                   files_to_analyze, file_i, stages, filter_trace>>

\* Step 5 ends: repo.dependencies = the returned list
ManifestsDone ==
    /\ pc = "ParseManifests"
    /\ manifest_i > Len(package_managers)
    /\ repo' = [repo EXCEPT !.dependencies = dependencies]
    /\ Enter("ScoreTechnologies")
    /\ UNCHANGED <<repo_url, remote, readme_i, ignore_patterns, file_tree, files_to_analyze,
                   file_i, dependencies, manifest_i, requests, failures, filter_trace,
                   parse_trace>>

\* a scoring stage that drops the content of the files it has read
ScoreTechnologies_DropsContent ==
    /\ pc = "ScoreTechnologies"
    /\ repo' = [repo EXCEPT !.technologies = detect_technologies(repo.files, repo.dependencies),
                            !.files = [k \in 1..Len(repo.files) |->
                                          [repo.files[k] EXCEPT !.content = ""]]]
    /\ Enter("GenerateDocumentation")
    /\ UNCHANGED <<repo_url, remote, readme_i, ignore_patterns, file_tree, files_to_analyze,
                   file_i, dependencies, manifest_i, requests, failures, filter_trace,
                   parse_trace>>

\* Step 6: repo.technologies = detect_technologies(repo)
ScoreTechnologies ==
    /\ pc = "ScoreTechnologies"
    /\ repo' = [repo EXCEPT !.technologies = detect_technologies(repo.files, repo.dependencies)]
    /\ Enter("GenerateDocumentation")
    /\ UNCHANGED <<repo_url, remote, readme_i, ignore_patterns, file_tree, files_to_analyze,
                   file_i, dependencies, manifest_i, requests, failures, filter_trace,
                   parse_trace>>

\* Step 7: generate_all_documentation(repo) reads repo and writes files
GenerateDocumentation ==
    /\ pc = "GenerateDocumentation"
    /\ Enter("Complete")
    /\ UNCHANGED <<repo_url, remote, repo, readme_i, ignore_patterns, file_tree,
                   files_to_analyze, file_i, dependencies, manifest_i, requests, failures,
                   filter_trace, parse_trace>>

\* repo.analysis_complete = True; return repo
Complete ==
    /\ pc = "Complete"
    /\ repo' = [repo EXCEPT !.analysis_complete = TRUE]
    /\ Enter("returned")
    /\ UNCHANGED <<repo_url, remote, readme_i, ignore_patterns, file_tree, files_to_analyze,
                   file_i, dependencies, manifest_i, requests, failures, filter_trace,
                   parse_trace>>

Next ==
    \/ Start
    \/ FetchMetadata
    \/ FetchReadme
    \/ FetchIgnore
    \/ FetchTree
    \/ FetchTreeFallback
    \/ FilterCandidates
    \/ Cap
    \/ AnalyzeFile
    \/ FilesDone
    \/ ParseManifest
    \/ ManifestsDone
    \/ ScoreTechnologies
    \/ GenerateDocumentation
    \/ Complete

Spec == Init /\ [][Next]_vars

(***************************************************************************)
(* Properties of a run of analyze_repository                               *)
(***************************************************************************)

\* the stages of a run, as the pipeline names them
PipelineStages ==
    <<"FetchMetadata", "FetchReadme&Ignore", "FetchTree", "FilterCandidates", "Cap(50)",
      "FetchAndAnalyzeEachFile", "ParseManifests", "ScoreTechnologies", "Complete">>

\* the pipeline's name of a stage of the program: the README and the
\* .gitignore fetch are one stage, and so are the two tree requests
StageName(stage) ==
    CASE stage \in {"FetchReadme", "FetchIgnore"}      -> "FetchReadme&Ignore"
      [] stage \in {"FetchTree", "FetchTreeFallback"}  -> "FetchTree"
      [] stage = "Cap"                                 -> "Cap(50)"
      [] stage = "AnalyzeFiles"                        -> "FetchAndAnalyzeEachFile"
      [] OTHER                                         -> stage

\* the pipeline stages the run has entered, in order, each named once
StagesEntered ==
    LET named == [k \in 1..Len(stages) |-> StageName(stages[k])]
    IN  Select(named, {k \in 1..Len(named) :
                          /\ named[k] \notin {"GenerateDocumentation", "returned"}
                          /\ (k = 1 \/ named[k] # named[k - 1])})

IsPrefix(a, b) == Len(a) <= Len(b) /\ SubSeq(b, 1, Len(a)) = a

\* the metadata fetch failed: the request failed, or the identifier was
\* rejected before any request
MetadataFailed ==
    /\ pc \notin {"idle", "FetchMetadata"}
    /\ requests = <<>> \/ requests[1].answer = "fail"

\* the tree fetch gave an empty tree
TreeEmpty ==
    /\ \E k \in 1..Len(stages) : stages[k] = "FetchTree"
    /\ pc \notin {"FetchTree", "FetchTreeFallback"}
    /\ file_tree = <<>>

\* the answer to the content request of the k-th candidate of the per-file
\* loop, "none" when no request was made for it
FileAnswer(k) ==
    IF \E j \in 1..Len(requests) : requests[j].stage = "AnalyzeFiles" /\ requests[j].index = k
    THEN requests[CHOOSE j \in 1..Len(requests) :
                      requests[j].stage = "AnalyzeFiles" /\ requests[j].index = k].answer
    ELSE "none"

\* the answer to the content request of the k-th manifest of the registry
ManifestAnswer(k) ==
    requests[CHOOSE j \in 1..Len(requests) :
                 requests[j].stage = "ParseManifests" /\ requests[j].index = k].answer

\* whether a File record holds no content and no metric
Blank_File(f) ==
    /\ f.content = ""
    /\ f.line_count = 0 /\ f.function_count = 0 /\ f.class_count = 0
    /\ f.complexity_score = 0

\* whether the filter keeps a tree item under the ignore patterns, stated
\* from its three tests
KeptUnder(item, patterns) ==
    /\ item.type = "blob"
    /\ ~\E p \in patterns : PatternMatches(p, item.path, BaseName(item.path))
    /\ WithinSize(item.size)
    /\ Lower(PathSuffix(BaseName(item.path))) \notin excluded_extensions

\* KeptUnder for the items and the ignore patterns of the repositories,
\* computed once
KeptTable ==
    Tabulated([x \in {Item(e) : e \in KnownEntries}
                        \X {IgnorePatternsTable[c] : c \in DOMAIN IgnorePatternsTable}
                  |-> KeptUnder(x[1], x[2])])

\* whether the filter keeps a tree item of the run
Eligible(item) == KeptTable[<<item, ignore_patterns>>]

\* the eligible items of the fetched tree, in tree order
EligibleItems == Select(file_tree, {k \in 1..Len(file_tree) : Eligible(file_tree[k])})

\* C1: in the model a run returns, analysis_complete is TRUE only if every
\* stage ran in that run: the metadata request succeeded, the tree was not
\* empty, every retained candidate has its record, all manifests of the
\* registry were handled and the technologies were scored; a run that
\* aborted returns with the flag FALSE.
C1_CompleteOnlyAfterEveryStage ==
    /\ repo.analysis_complete =>
          /\ requests # <<>> /\ requests[1].op = "info" /\ requests[1].answer = "ok"
          /\ file_tree # <<>>
          /\ Len(repo.files) = Len(files_to_analyze)
          /\ \A k \in 1..Len(repo.files) : repo.files[k].path = files_to_analyze[k].path
          /\ Len(parse_trace) = Len(package_managers)
          /\ repo.dependencies = dependencies
          /\ repo.technologies = detect_technologies(repo.files, repo.dependencies)
          /\ StagesEntered = PipelineStages
    /\ (pc = "returned" /\ (MetadataFailed \/ TreeEmpty)) => ~repo.analysis_complete

C1_Witness ==
    /\ pc = "returned"
    /\ repo.analysis_complete
    /\ Len(repo.files) >= 2
    /\ repo.dependencies # <<>>
    /\ repo.technologies # <<>>

\* C2: the stages of a run are entered in the order FetchMetadata,
\* FetchReadme&Ignore, FetchTree, FilterCandidates, Cap(50),
\* FetchAndAnalyzeEachFile, ParseManifests, ScoreTechnologies, Complete:
\* what has been entered so far is a prefix of that list (none skipped, none
\* out of order), no stage of the program is entered twice, and the run is
\* in the stage it entered last.
C2_StagesInFixedOrder ==
    /\ IsPrefix(StagesEntered, PipelineStages)
    /\ \A i, j \in 1..Len(stages) : i # j => stages[i] # stages[j]
    /\ pc # "idle" => stages[Len(stages)] = pc

C2_Witness ==
    /\ pc = "returned"
    /\ StagesEntered = PipelineStages
    /\ \E k \in 1..Len(stages) : stages[k] = "FetchTreeFallback"

\* C3: once the metadata fetch has failed or the tree has come back empty,
\* the run has returned (it did not raise), the flag is unset, the files,
\* dependencies and technologies are empty, the last request is the one of
\* the stage that aborted, and no further step (so no further fetch) follows.
C3_AbortReturnsEmptyModel ==
    (MetadataFailed \/ TreeEmpty) =>
        /\ pc = "returned"
        /\ ~repo.analysis_complete
        /\ repo.files = <<>> /\ repo.dependencies = <<>> /\ repo.technologies = <<>>
        /\ MetadataFailed => Len(requests) <= 1
        /\ TreeEmpty => requests[Len(requests)].op = "tree"
        /\ ~ENABLED Next

C3_Witness ==
    /\ TreeEmpty
    /\ pc = "returned"
    /\ repo.readme_content = ReadmeEntry.text
    /\ requests[Len(requests)].answer = "fail"

\* C4: when the content request of a retained candidate fails, its record is
\* appended all the same, with empty content and zero metrics; the loop goes
\* on with the later candidates, each of which gets its record (with the
\* content fetched for it); and the run goes on through the later stages and
\* returns with the flag set.
C4_FileFetchFailureDoesNotAbort ==
    \A k \in 1..Len(files_to_analyze) :
        FileAnswer(k) = "fail" =>
            /\ k <= Len(repo.files)
            /\ repo.files[k].path = files_to_analyze[k].path
            /\ Blank_File(repo.files[k])
            /\ pc \in {"AnalyzeFiles", "ParseManifests", "ScoreTechnologies",
                       "GenerateDocumentation", "Complete", "returned"}
            /\ pc = "AnalyzeFiles" => /\ Len(repo.files) = file_i - 1
                                      /\ file_i <= Len(files_to_analyze) + 1
            /\ pc # "AnalyzeFiles" => Len(repo.files) = Len(files_to_analyze)
            /\ \A j \in (k + 1)..Len(repo.files) :
                  /\ repo.files[j].path = files_to_analyze[j].path
                  /\ FileAnswer(j) = "ok" =>
                        repo.files[j].content = RemoteText(remote, files_to_analyze[j].path)
            /\ pc = "returned" => repo.analysis_complete

C4_Witness ==
    /\ pc = "returned"
    /\ repo.analysis_complete
    /\ Len(repo.files) >= 2
    /\ FileAnswer(1) = "fail"
    /\ Blank_File(repo.files[1])
    /\ FileAnswer(2) = "ok"
    /\ repo.files[2].line_count > 0

\* what the k-th manifest of the registry contributes: the records its
\* parser returns if its content came back and the parser did not raise
Contribution(k) ==
    IF /\ ManifestAnswer(k) = "ok"
       /\ RemoteText(remote, package_managers[k]) # ""
       /\ ~Parsed(package_managers[k], RemoteText(remote, package_managers[k])).raised
    THEN Parsed(package_managers[k], RemoteText(remote, package_managers[k])).deps
    ELSE <<>>

RECURSIVE Contributions(_)
Contributions(n) == IF n = 0 THEN <<>> ELSE Contributions(n - 1) \o Contribution(n)

\* C5: a manifest whose parser raises contributes no record and does not stop
\* the stage: every manifest whose content came back is given to its parser,
\* and the dependencies are the concatenation, in registry order, of the
\* records of the manifests parsed without an exception.
C5_RaisingParserContributesNothing ==
    /\ \A k \in 1..Len(parse_trace) :
          /\ parse_trace[k].file_name = package_managers[k]
          /\ parse_trace[k].parsed <=>
                 (ManifestAnswer(k) = "ok" /\ RemoteText(remote, package_managers[k]) # "")
    /\ pc = "ParseManifests" =>
          /\ Len(parse_trace) = manifest_i - 1
          /\ dependencies = Contributions(manifest_i - 1)
    /\ pc \in {"ScoreTechnologies", "GenerateDocumentation", "Complete"}
          \/ (pc = "returned" /\ repo.analysis_complete) =>
          /\ Len(parse_trace) = Len(package_managers)
          /\ repo.dependencies = Contributions(Len(package_managers))

C5_Witness ==
    /\ pc = "returned"
    /\ \E j, k \in 1..Len(parse_trace) :
          /\ j < k
          /\ parse_trace[j].deps # <<>> /\ ~parse_trace[j].raised
          /\ parse_trace[k].raised
          /\ repo.dependencies = parse_trace[j].deps

\* C6: no manifest parser raises, whatever the content it is given.
C6_ParsersNeverRaise ==
    \A k \in 1..Len(parse_trace) : ~parse_trace[k].raised

\* the candidates of the per-file loop that a content request was made for
\* are within the ceiling and among the first max_files eligible items
FileRequestsWithinLimits ==
    LET eligible == EligibleItems
    IN  \A j \in 1..Len(requests) :
            requests[j].stage = "AnalyzeFiles" =>
                /\ requests[j].op = "content"
                /\ requests[j].index \in 1..max_files
                /\ requests[j].index <= Len(eligible)
                /\ eligible[requests[j].index].path = requests[j].arg
                /\ eligible[requests[j].index].size <= MAX_FILE_SIZE

C8_FilesAreCappedPrefix ==
    pc = "returned" =>
        LET eligible == EligibleItems
        IN  /\ Len(repo.files) <= max_files
            /\ Len(repo.files) = Min({max_files, Len(eligible)})
            /\ \A k \in 1..Len(repo.files) :
                  /\ repo.files[k].path = eligible[k].path
                  /\ repo.files[k].size = eligible[k].size

C8_Witness ==
    /\ pc = "returned"
    /\ Len(EligibleItems) > max_files
    /\ Len(repo.files) = max_files

\* C9: a blob whose extension is not denylisted and that no ignore pattern
\* matches is rejected by the filter exactly when its size exceeds 100,000
\* bytes.
C9_RejectedIffOversize ==
    \A k \in 1..Len(filter_trace) :
        (/\ filter_trace[k].blob
         /\ ~filter_trace[k].ignored
         /\ Lower(PathSuffix(BaseName(file_tree[k].path))) \notin excluded_extensions)
            => (~filter_trace[k].keep <=> file_tree[k].size > MAX_FILE_SIZE)

\* whether the filter rejects an item for its extension or its size
DenylistedOrOversize(item) ==
    \/ Lower(PathSuffix(BaseName(item.path))) \in excluded_extensions
    \/ ~WithinSize(item.size)

\* C10 as stated: for a blob with a denylisted extension or above the size
\* ceiling, no ignore pattern is evaluated.
C10_NoPatternAfterDenylistOrSize ==
    \A k \in 1..Len(filter_trace) :
        (filter_trace[k].blob /\ DenylistedOrOversize(file_tree[k])) => filter_trace[k].evals = 0

\* C10, amended: the filter tests the ignore patterns first, for every blob
\* whatever its extension and size, up to the first pattern that matches;
\* it tests the size only when no pattern matched and the extension only
\* when the size passed; the blob is kept when all three pass.  (Stated of
\* the filter loop as it ends; nothing changes its record afterwards.)
C10_PatternsThenSizeThenExtension ==
    \A k \in 1..Len(filter_trace) :
        (pc = "Cap" /\ filter_trace[k].blob) =>
            /\ filter_trace[k].ignored <=>
                   \E p \in ignore_patterns :
                       PatternMatches(p, file_tree[k].path, BaseName(file_tree[k].path))
            /\ filter_trace[k].ignored => filter_trace[k].evals \in 1..Cardinality(ignore_patterns)
            /\ ~filter_trace[k].ignored => filter_trace[k].evals = Cardinality(ignore_patterns)
            /\ filter_trace[k].size_tested <=> ~filter_trace[k].ignored
            /\ filter_trace[k].ext_tested <=>
                   (~filter_trace[k].ignored /\ WithinSize(file_tree[k].size))
            /\ filter_trace[k].keep <=>
                   (/\ ~filter_trace[k].ignored
                    /\ WithinSize(file_tree[k].size)
                    /\ Lower(PathSuffix(BaseName(file_tree[k].path))) \notin excluded_extensions)

C10_Witness ==
    \E k \in 1..Len(filter_trace) :
        /\ filter_trace[k].blob
        /\ DenylistedOrOversize(file_tree[k])
        /\ ~filter_trace[k].ignored
        /\ filter_trace[k].evals = 2

\* whether text begins with the characters of head, stated on the characters
IsHeadOf(head, text) ==
    /\ Len(head) <= Len(text)
    /\ \A i \in 1..Len(head) : Ch(head, i) = Ch(text, i)

\* whether some occurrence of part in text starts after the first character
OccursLater(part, text) ==
    \E i \in 2..(Len(text) - Len(part) + 1) : SubSeq(text, i, i + Len(part) - 1) = part

\* C11: with "dist/" among the ignore patterns, the filter excludes the path
\* dist/bundle.js and keeps the path src/dist/file.js; a blob is ignored for a
\* directory pattern only when the pattern, without its trailing slashes, is
\* the beginning of the blob's full path, never for an occurrence elsewhere.
C11_DirectoryPatternIsPrefix ==
    \A k \in 1..Len(filter_trace) :
        (pc = "Cap" /\ filter_trace[k].blob) =>
            /\ (file_tree[k].path = "dist/bundle.js" /\ "dist/" \in ignore_patterns) =>
                   (filter_trace[k].ignored /\ ~filter_trace[k].keep)
            /\ (file_tree[k].path = "src/dist/file.js" /\ "dist/" \in ignore_patterns) =>
                   (~filter_trace[k].ignored /\ filter_trace[k].keep)
            /\ filter_trace[k].ignored <=>
                   \E p \in ignore_patterns :
                       \/ EndsWith(p, "/") /\ IsHeadOf(RStripChar(p, "/"), file_tree[k].path)
                       \/ /\ StartsWith(p, "*.")
                          /\ EndsWith(BaseName(file_tree[k].path), LStripChar(p, "*"))
                       \/ p = BaseName(file_tree[k].path) \/ p = file_tree[k].path

C11_Witness ==
    /\ pc = "Cap"
    /\ "dist/" \in ignore_patterns
    /\ \E j, k \in 1..Len(filter_trace) :
          /\ file_tree[j].path = "dist/bundle.js" /\ ~filter_trace[j].keep
          /\ file_tree[k].path = "src/dist/file.js" /\ filter_trace[k].keep
          /\ OccursLater("dist", file_tree[k].path)

\* the extensions File._detect_language gives a language
RecognizedExtensions ==
    {"py", "js", "ts", "java", "cpp", "c", "go", "rs", "rb", "php", "cs", "swift", "kt",
     "html", "css", "json", "yaml", "yml"}

\* the extensions always fetched as text
AlwaysFetched == {"txt", "md", "yml", "yaml", "json", "xml"}

\* C12: the content of a retained candidate is requested if and only if its
\* derived language is not Unknown or its extension is one of txt, md, yml,
\* yaml, json, xml; a candidate whose content is not requested has its record
\* all the same, with empty content and zero metrics.
C12_FetchedIffRecognizedOrText ==
    \A k \in 1..Len(repo.files) :
        /\ repo.files[k].path = files_to_analyze[k].path
        /\ repo.files[k].language # "Unknown" <=>
               Lower(repo.files[k].extension) \in RecognizedExtensions
        /\ FileAnswer(k) # "none" <=>
               \/ repo.files[k].language # "Unknown"
               \/ repo.files[k].extension \in AlwaysFetched
        /\ FileAnswer(k) = "none" => Blank_File(repo.files[k])

C12_Witness ==
    /\ pc = "returned"
    /\ \E i, j, k \in 1..Len(repo.files) :
          /\ FileAnswer(i) = "none"
          /\ repo.files[i].language = "Unknown" /\ Blank_File(repo.files[i])
          /\ FileAnswer(j) = "ok"
          /\ repo.files[j].language = "Unknown" /\ repo.files[j].extension = "md"
          /\ repo.files[j].line_count > 0
          /\ FileAnswer(k) = "ok"
          /\ repo.files[k].language = "Python"

\* C13: no two file records of a returned model have the same path.
C13_UniquePaths ==
    pc = "returned" =>
        \A i, j \in 1..Len(repo.files) : i # j => repo.files[i].path # repo.files[j].path

\* the technology names of the catalog
CatalogNames ==
    {"React", "Angular", "Vue", "Django", "Flask", "Express", "Spring Boot", "Laravel",
     "MongoDB", "PostgreSQL", "MySQL", "Redis", "SQLite", "Jest", "PyTest", "JUnit", "Mocha"}

\* C14: the technologies of a model hold at most one signal per name, every
\* name is a name of the catalog, and every confidence (in tenths) is above
\* 0.1 and at most 1.
C14_SignalsUniqueCataloguedBounded ==
    /\ \A i \in 1..Len(repo.technologies) :
          /\ repo.technologies[i].name \in CatalogNames
          /\ repo.technologies[i].confidence > 1
          /\ repo.technologies[i].confidence <= 10
    /\ \A i, j \in 1..Len(repo.technologies) :
          i # j => repo.technologies[i].name # repo.technologies[j].name

C14_Witness ==
    /\ pc = "returned"
    /\ \E i, j \in 1..Len(repo.technologies) :
          /\ repo.technologies[i].confidence = 10
          /\ repo.technologies[j].confidence = 3
    /\ \E f, g \in 1..Len(repo.files) :
          /\ f # g
          /\ \E t \in 1..Len(FileEvidence(repo.files[f].content)) :
                \E u \in 1..Len(FileEvidence(repo.files[g].content)) :
                    FileEvidence(repo.files[f].content)[t][1]
                        = FileEvidence(repo.files[g].content)[u][1]

\* the number of matches of every pattern of the catalog in every text of
\* the repositories
PatternCounts ==
    [c \in {e.text : e \in KnownEntries} |->
        [t \in TechIds |->
            [k \in 1..Len(technology_patterns[t].patterns) |->
                FindAllCount(technology_patterns[t].patterns[k].re, c, TRUE)]]]

\* the technologies a dependency name hints at: those with a pattern whose
\* lower-cased source occurs in the lower-cased name
DependencyHints ==
    [n \in KnownDependencyNames |->
        {t \in TechIds : \E k \in 1..Len(technology_patterns[t].patterns) :
                            Contains(Lower(n), Lower(technology_patterns[t].patterns[k].raw))}]

\* all the evidence for technology t, in tenths: min(0.3 x matches, 1.0) of
\* every pattern in every file with content, 0.8 for every hinting dependency
EvidenceFor(t, files, deps) ==
    {Min({3 * PatternCounts[files[f].content][t][k], 10}) :
        f \in {i \in 1..Len(files) : files[i].content # ""},
        k \in 1..Len(technology_patterns[t].patterns)}
    \cup {8 : d \in {i \in 1..Len(deps) : t \in DependencyHints[deps[i].name]}}

\* C15: the confidence emitted for a technology is the maximum of all its
\* evidence (never a sum over patterns, files or sources), and a technology
\* is emitted exactly when that maximum is above 0.1; so evidence 0.3 and 0.8
\* gives 0.8, and two files with one match each give 0.3.  (Stated of the
\* scoring stage as it ends.)
C15_ConfidenceIsMaximum ==
    pc = "GenerateDocumentation" =>
        \A t \in TechIds :
            LET best == Max({0} \cup EvidenceFor(t, repo.files, repo.dependencies))
                emitted == {i \in 1..Len(repo.technologies) :
                               repo.technologies[i].name = technology_patterns[t].name}
            IN  /\ emitted # {} <=> best > 1
                /\ \A i \in emitted : repo.technologies[i].confidence = best

C15_Witness ==
    /\ pc = "GenerateDocumentation"
    /\ \E t \in TechIds :
          /\ EvidenceFor(t, repo.files, repo.dependencies) = {0, 3, 8}
          /\ \E f, g \in 1..Len(repo.files) :
                /\ f # g
                /\ repo.files[f].content # "" /\ repo.files[g].content # ""
                /\ \E k \in 1..Len(technology_patterns[t].patterns) :
                      PatternCounts[repo.files[f].content][t][k] = 1
                /\ \E k \in 1..Len(technology_patterns[t].patterns) :
                      PatternCounts[repo.files[g].content][t][k] = 1
          /\ \E i \in 1..Len(repo.technologies) :
                /\ repo.technologies[i].name = technology_patterns[t].name
                /\ repo.technologies[i].confidence = 8

\* sequences of at most this length are rearranged in every possible way
MaxPermuted == 3

\* rearrangements of seq: all of them for a short sequence; for a longer one
\* the exchanges of two unlike neighbours, which generate all of them, and
\* the reversal
Rearrangements(seq) ==
    IF Len(seq) <= MaxPermuted
    THEN {[k \in 1..Len(seq) |-> seq[f[k]]] : f \in Orders(1..Len(seq))}
    ELSE {[seq EXCEPT ![i] = seq[i + 1], ![i + 1] = seq[i]] :
             i \in {j \in 1..(Len(seq) - 1) : seq[j] # seq[j + 1]}}
         \cup {[k \in 1..Len(seq) |-> seq[Len(seq) + 1 - k]]}

\* the (name, category, confidence) triples of a technologies list
Triples(technologies) ==
    {<<technologies[i].name, technologies[i].category, technologies[i].confidence>> :
        i \in 1..Len(technologies)}

\* C16: scoring the same files and dependencies again gives the same list,
\* and scoring any rearrangement of the files and of the dependencies gives
\* the same set of (name, category, confidence) triples.  (Stated of the
\* scoring stage as it ends.)
C16_ScoringIgnoresOrder ==
    pc = "GenerateDocumentation" =>
        /\ detect_technologies(repo.files, repo.dependencies) = repo.technologies
        /\ \A fs \in Rearrangements(repo.files) :
              \A ds \in Rearrangements(repo.dependencies) :
                  Triples(detect_technologies(fs, ds)) = Triples(repo.technologies)

C16_Witness ==
    /\ pc = "GenerateDocumentation"
    /\ Len(repo.technologies) >= 2
    /\ \E fs \in Rearrangements(repo.files) :
          \E ds \in Rearrangements(repo.dependencies) :
              /\ fs # repo.files /\ ds # repo.dependencies
              /\ detect_technologies(fs, ds) # repo.technologies

\* the positions of the operator characters of the requirements list in line
OperatorPositions(line) == {j \in 1..Len(line) : Ch(line, j) \in {">", "=", "<", "~", "!"}}

\* the record the requirements list is to give for a stripped line: the name
\* before the first operator and, as version, the rest of the line from that
\* operator on, or "*" without an operator
RequirementOf(line) ==
    IF OperatorPositions(line) = {}
    THEN [name |-> line, version |-> "*", type |-> "pip", is_dev |-> FALSE]
    ELSE [name |-> Strip(SubSeq(line, 1, Min(OperatorPositions(line)) - 1)),
          version |-> Strip(From(line, Min(OperatorPositions(line)))),
          type |-> "pip", is_dev |-> FALSE]

\* one record per non-empty, non-comment line of content
RequirementsOf(content) ==
    LET lines == Split(content, "\n")
        pick[n \in 0..Len(lines)] ==
            IF n = 0 THEN <<>>
            ELSE IF Strip(lines[n]) # "" /\ ~StartsWith(Strip(lines[n]), "#")
                 THEN Append(pick[n - 1], RequirementOf(Strip(lines[n])))
                 ELSE pick[n - 1]
    IN  pick[Len(lines)]

\* C17: the requirements-list parser gives exactly one record per non-empty,
\* non-comment line, with the name before the first of > = < ~ ! and, as
\* version, the rest of the line from that operator on ("*" without one),
\* tagged pip and not dev.
C17_RequirementsNameAndRest ==
    \A k \in 1..Len(parse_trace) :
        (parse_trace[k].file_name = "requirements.txt" /\ parse_trace[k].parsed) =>
            /\ ~parse_trace[k].raised
            /\ parse_trace[k].deps = RequirementsOf(RemoteText(remote, "requirements.txt"))

\* whether a stripped line is a section header, and the section it names
IsHeader(line) == StartsWith(line, "[") /\ EndsWith(line, "]")

\* the section in force after each of the first n stripped lines
SectionAfter(lines, n) ==
    LET sec[i \in 0..n] ==
            IF i = 0 THEN ""
            ELSE IF IsHeader(Strip(lines[i]))
                 THEN SubSeq(Strip(lines[i]), 2, Len(Strip(lines[i])) - 1)
                 ELSE sec[i - 1]
    IN  sec[n]

\* the record a Pipfile line is to give in section: the name before the first
\* '=' and the whole right-hand side of it without the surrounding quotes
PipfileEntryOf(line, section) ==
    LET eq == FindFrom(line, "=", 1)
    IN  [name |-> Strip(SubSeq(line, 1, eq - 1)),
         version |-> RStripChar(LStripChar(Strip(From(line, eq + 1)), "\""), "\""),
         type |-> "pipenv",
         is_dev |-> section = "dev-packages"]

PipfileEntriesOf(content) ==
    LET lines == Split(content, "\n")
        pick[n \in 0..Len(lines)] ==
            IF n = 0 THEN <<>>
            ELSE IF /\ ~IsHeader(Strip(lines[n]))
                    /\ Contains(Strip(lines[n]), "=")
                    /\ SectionAfter(lines, n - 1) \in {"packages", "dev-packages"}
                 THEN Append(pick[n - 1],
                             PipfileEntryOf(Strip(lines[n]), SectionAfter(lines, n - 1)))
                 ELSE pick[n - 1]
    IN  pick[Len(lines)]

\* C18: the Pipfile parser gives a record exactly for the lines that contain
\* '=' under the header [packages] or [dev-packages]; the version is the
\* whole right-hand side of the first '=' without its surrounding quotes
\* (==2.0 for the line flask = "==2.0"), and is_dev holds exactly under
\* [dev-packages].
C18_PipfileVersionIsRightHandSide ==
    \A k \in 1..Len(parse_trace) :
        (parse_trace[k].file_name = "Pipfile" /\ parse_trace[k].parsed) =>
            /\ ~parse_trace[k].raised
            /\ parse_trace[k].deps = PipfileEntriesOf(RemoteText(remote, "Pipfile"))

\* the positions, among the first n lines, of the bracketed lines
BracketedBefore(lines, n) == {i \in 1..n : StartsWith(Strip(lines[i]), "[")}

\* whether line n of a Cargo manifest is to give a record: it contains '=',
\* is not bracketed itself, and the most recent bracketed line before it is
\* exactly [dependencies]
CargoCollects(lines, n) ==
    /\ ~StartsWith(Strip(lines[n]), "[")
    /\ Contains(Strip(lines[n]), "=")
    /\ BracketedBefore(lines, n - 1) # {}
    /\ Strip(lines[Max(BracketedBefore(lines, n - 1))]) = "[dependencies]"

\* the names before the '=' of the lines that are to give a record, in order
CargoNamesOf(content) ==
    LET lines == Split(content, "\n")
        pick[n \in 0..Len(lines)] ==
            IF n = 0 THEN <<>>
            ELSE IF CargoCollects(lines, n)
                 THEN Append(pick[n - 1],
                             Strip(SubSeq(Strip(lines[n]), 1,
                                          FindFrom(Strip(lines[n]), "=", 1) - 1)))
                 ELSE pick[n - 1]
    IN  pick[Len(lines)]

\* CargoNamesOf for the Cargo manifests of the repositories, computed once
CargoNamesTable ==
    Tabulated([c \in {e.text : e \in {x \in KnownEntries : x.path = "Cargo.toml"}}
                  |-> CargoNamesOf(c)])

\* C19: the Cargo parser gives a record exactly for the lines that contain
\* '=' and whose most recent bracketed line is exactly [dependencies]: none
\* for a line before any header or under another section ([package],
\* [dev-dependencies], [dependencies.x]), and again one after [dependencies]
\* is entered anew.
C19_CargoCollectsOnlyInDependencies ==
    \A k \in 1..Len(parse_trace) :
        (parse_trace[k].file_name = "Cargo.toml" /\ parse_trace[k].parsed) =>
            /\ ~parse_trace[k].raised
            /\ [i \in 1..Len(parse_trace[k].deps) |-> parse_trace[k].deps[i].name]
                   = CargoNamesTable[RemoteText(remote, "Cargo.toml")]

C19_Witness ==
    \E k \in 1..Len(parse_trace) :
        /\ parse_trace[k].file_name = "Cargo.toml"
        /\ Len(parse_trace[k].deps) = 2
        /\ LET lines == Split(RemoteText(remote, "Cargo.toml"), "\n")
           IN  /\ Contains(lines[1], "=") /\ ~CargoCollects(lines, 1)
               /\ \E a, b, c, d \in 1..Len(lines) :
                     /\ a < b /\ b < c /\ c < d
                     /\ CargoCollects(lines, a)
                     /\ lines[b] = "[dev-dependencies]"
                     /\ Contains(lines[c], "=") /\ ~CargoCollects(lines, c)
                     /\ CargoCollects(lines, d)
               /\ \E h, i \in 1..Len(lines) :
                     /\ lines[h] = "[dependencies.x]"
                     /\ i = h + 1
                     /\ Contains(lines[i], "=") /\ ~CargoCollects(lines, i)


\* C20: for a Python file whose text parses, function_count is the number of
\* function definitions of the syntax tree at any depth, declared with def
\* or with async def, and class_count is the number of class definitions at
\* any depth.
C20_PythonCountsAreExact ==
    \A k \in 1..Len(repo.files) :
        (repo.files[k].language = "Python" /\ repo.files[k].content # "") =>
            LET tree == ast_parse(repo.files[k].content)
            IN  tree.ok =>
                    /\ repo.files[k].function_count = tree.defs + tree.asyncs
                    /\ repo.files[k].class_count = tree.classes


\* ast.parse of the Python texts of the repositories, computed once
SyntaxTreeTable ==
    Tabulated([c \in {e.text : e \in {x \in KnownEntries : EndsWith(x.path, ".py")}}
                  |-> ast_parse(c)])

\* the record's text is Python that ast.parse rejects
ParseFails(f) ==
    /\ f.language = "Python"
    /\ f.content # ""
    /\ ~SyntaxTreeTable[f.content].ok

\* C21: a Python file whose text does not parse gets its record all the same,
\* with function_count 0 and class_count 0, with line_count and
\* complexity_score computed from the text; the loop goes on with the next
\* candidate and the run reaches the later stages.
C21_ParseFailureGivesZeroCounts ==
    \A k \in 1..Len(repo.files) :
        ParseFails(repo.files[k]) =>
            /\ repo.files[k].function_count = 0
            /\ repo.files[k].class_count = 0
            /\ repo.files[k].line_count = Count(repo.files[k].content, "\n") + 1
            /\ repo.files[k].complexity_score = calculate_complexity(repo.files[k].content)
            /\ repo.files[k].complexity_score >= 10 * repo.files[k].line_count
            /\ pc \in {"AnalyzeFiles", "ParseManifests", "ScoreTechnologies",
                       "GenerateDocumentation", "Complete", "returned"}
            /\ pc = "AnalyzeFiles" => /\ Len(repo.files) = file_i - 1
                                      /\ file_i <= Len(files_to_analyze) + 1
            /\ pc # "AnalyzeFiles" => Len(repo.files) = Len(files_to_analyze)
            /\ pc = "returned" => repo.analysis_complete

C21_Witness ==
    /\ pc = "returned"
    /\ repo.analysis_complete
    /\ \E k \in 1..Len(repo.files) :
          /\ ParseFails(repo.files[k])
          /\ Contains(repo.files[k].content, "def ")
          /\ Contains(repo.files[k].content, "class ")
          /\ repo.files[k].line_count = 4
          /\ repo.files[k].complexity_score = 90
          /\ k < Len(repo.files)
          /\ repo.files[k + 1].line_count > 0


\* the number of places of text where word stands, in any letter case
OccurrencesOf(text, word) ==
    Cardinality({k \in 1..(Len(text) - Len(word) + 1) :
                    Lower(SubSeq(text, k, k + Len(word) - 1)) = word})

\* 0.1 per newline-delimited segment and 0.5 per occurrence of if, for,
\* while, switch, case, try and catch, in hundredths
ExpectedScore(text) ==
    10 * (OccurrencesOf(text, "\n") + 1)
    + 50 * (OccurrencesOf(text, "if") + OccurrencesOf(text, "for")
            + OccurrencesOf(text, "while") + OccurrencesOf(text, "switch")
            + OccurrencesOf(text, "case") + OccurrencesOf(text, "try")
            + OccurrencesOf(text, "catch"))

\* the expected segment counts and scores of the texts of the repositories,
\* computed once
ExpectedScoreTable ==
    Tabulated([c \in {e.text : e \in KnownEntries} |->
                  [segments |-> OccurrencesOf(c, "\n") + 1, score |-> ExpectedScore(c)]])

\* the analysis of the two texts "a\nb\n" and "a\nb"
SegmentExamples ==
    <<analyze_file(File("n.txt", "n.txt", "txt", 4, "a\nb\n")),
      analyze_file(File("n.txt", "n.txt", "txt", 3, "a\nb"))>>

\* C22: for a non-empty text the complexity score is 0.1 x line_count + 0.5 x
\* the number of occurrences, in any letter case, of if, for, while, switch,
\* case, try and catch, where line_count is the number of newline-delimited
\* segments the record reports ("a\nb\n" gives 3, "a\nb" gives 2); a text of
\* 1000 lines with five if and three for scores 104.0.
C22_ComplexityIsLinesAndKeywords ==
    /\ \A k \in 1..Len(repo.files) :
          repo.files[k].content # "" =>
              LET expected == ExpectedScoreTable[repo.files[k].content]
              IN  /\ repo.files[k].line_count = expected.segments
                  /\ repo.files[k].complexity_score = expected.score
                  /\ repo.files[k].complexity_score
                         = 10 * repo.files[k].line_count
                           + (expected.score - 10 * expected.segments)
    /\ SegmentExamples[1].line_count = 3 /\ SegmentExamples[1].complexity_score = 30
    /\ SegmentExamples[2].line_count = 2 /\ SegmentExamples[2].complexity_score = 20

C22_Witness ==
    \E k \in 1..Len(repo.files) :
        /\ repo.files[k].content = ScenarioText
        /\ repo.files[k].line_count = 1000
        /\ OccurrencesOf(repo.files[k].content, "if") = 5
        /\ OccurrencesOf(repo.files[k].content, "for") = 3
        /\ Contains(repo.files[k].content, "IF") /\ Contains(repo.files[k].content, "For")
        /\ ExpectedScoreTable[repo.files[k].content].score = 10400
        /\ repo.files[k].complexity_score = 10400


\* the lines joined by "\n"
RECURSIVE JoinLines(_)
JoinLines(lines) ==
    IF Len(lines) = 0 THEN ""
    ELSE IF Len(lines) = 1 THEN lines[1]
    ELSE JoinLines(SubSeq(lines, 1, Len(lines) \div 2)) \o "\n"
         \o JoinLines(SubSeq(lines, Len(lines) \div 2 + 1, Len(lines)))

\* the texts made of the lines of text in another order
Reordered(text) == {JoinLines(r) : r \in Rearrangements(Split(text, "\n"))} \ {text}

\* the scores of the texts of the repositories, scored again, and of their
\* reordered texts, computed once
ReorderedScoreTable ==
    Tabulated([c \in {e.text : e \in KnownEntries} |->
            [again |-> calculate_complexity(c),
             others |-> {calculate_complexity(t) : t \in Reordered(c)},
             texts |-> Cardinality(Reordered(c))]])

\* C23: the complexity score of a text is the score of every text made of
\* the same lines in another order, and scoring the same text again gives
\* the same score.
C23_ScoreIgnoresLineOrder ==
    \A k \in 1..Len(repo.files) :
        repo.files[k].content # "" =>
            /\ ReorderedScoreTable[repo.files[k].content].again = repo.files[k].complexity_score
            /\ ReorderedScoreTable[repo.files[k].content].others
                   \subseteq {repo.files[k].complexity_score}

C23_Witness ==
    \E k \in 1..Len(repo.files) :
        /\ repo.files[k].path = "app.py"
        /\ repo.files[k].content # ""
        /\ ReorderedScoreTable[repo.files[k].content].texts >= 3
        /\ repo.files[k].complexity_score > 10 * repo.files[k].line_count
        /\ ReorderedScoreTable[repo.files[k].content].others = {repo.files[k].complexity_score}
        /\ \E t \in Reordered(repo.files[k].content) :
              \E i \in 1..repo.files[k].line_count :
                  OccurrencesOf(Split(t, "\n")[i], "if")
                      # OccurrencesOf(Split(repo.files[k].content, "\n")[i], "if")


\* the requests for the tree, in the order they were made
TreeRequests == Select(requests, {k \in 1..Len(requests) : requests[k].op = "tree"})

\* C24: a run makes at most two requests for the tree: the first for branch
\* main, the second for branch master, made exactly when the request for
\* main failed; when both fail the tree is empty.
C24_TreeFetchedAtMostTwice ==
    LET tree == TreeRequests
    IN  /\ Len(tree) <= 2
        /\ Len(tree) >= 1 => tree[1].arg = "main"
        /\ Len(tree) = 2 => tree[1].answer = "fail" /\ tree[2].arg = "master"
        /\ (Len(tree) = 1 /\ tree[1].answer = "fail") => pc = "FetchTreeFallback"
        /\ pc = "FetchTreeFallback" => (Len(tree) = 1 /\ tree[1].answer = "fail")
        /\ (Len(tree) = 2 /\ tree[2].answer = "fail") => file_tree = <<>> /\ pc = "returned"

C24_Witness ==
    /\ pc = "returned"
    /\ Len(TreeRequests) = 2
    /\ TreeRequests[1].answer = "fail"
    /\ TreeRequests[2].answer = "ok"
    /\ Len(file_tree) >= 2
    /\ repo.analysis_complete


\* the identifier gives an owner and a repository name
YieldsOwnerAndName(url) ==
    LET rest == IF StartsWith(url, "https://github.com/")
                THEN From(url, Len("https://github.com/") + 1) ELSE url
        slash == FindFrom(rest, "/", 1)
    IN  slash > 1 /\ slash < Len(rest)

\* C25: for an identifier that gives no owner and repository name, no request
\* is made and analyze_repository hands no model to its caller.
C25_InvalidIdentifierGivesNoModel ==
    ~YieldsOwnerAndName(repo_url) => /\ requests = <<>>
                                     /\ pc # "returned"


\* C26: a file record is not changed once it is appended: the per-file stage
\* only appends, and the manifest, scoring and documentation stages leave
\* repo.files as it is; the scoring and documentation stages leave
\* repo.dependencies as it is.
C26_RecordsAreNotEdited ==
    [][/\ pc # "idle" => IsPrefix(repo.files, repo'.files)
       /\ pc \in {"ParseManifests", "ScoreTechnologies", "GenerateDocumentation", "Complete"}
              => repo'.files = repo.files
       /\ pc \in {"ScoreTechnologies", "GenerateDocumentation", "Complete"}
              => repo'.dependencies = repo.dependencies]_vars

C26_Witness ==
    /\ pc = "returned"
    /\ repo.analysis_complete
    /\ Len(repo.files) >= 2
    /\ \E k \in 1..Len(repo.files) : repo.files[k].content # ""
    /\ Len(repo.dependencies) >= 2
    /\ Len(repo.technologies) >= 1


\* analyze_repository runs in one thread: a step that can be taken is taken
FairSpec == Spec /\ WF_vars(Next)

\* the run ended by a top-level abort: the flag is unset
EndedByAbort ==
    /\ MetadataFailed \/ TreeEmpty
    /\ ~repo.analysis_complete

\* the run ended by Complete: the flag is set, every retained candidate has
\* its record and every manifest of the registry was looked at
EndedByComplete ==
    /\ ~(MetadataFailed \/ TreeEmpty)
    /\ repo.analysis_complete
    /\ stages[Len(stages) - 1] = "Complete"
    /\ Len(repo.files) = Len(files_to_analyze)
    /\ manifest_i = Len(package_managers) + 1

\* a content request of the per-file stage failed, or a parser raised
SingleFailure ==
    \/ \E k \in 1..Len(requests) :
          requests[k].stage = "AnalyzeFiles" /\ requests[k].answer = "fail"
    \/ \E k \in 1..Len(parse_trace) : parse_trace[k].raised

C28_DirectoryPatternNeedsSlash ==
    \A k \in 1..Len(filter_trace) :
        (pc = "Cap" /\ filter_trace[k].blob /\ filter_trace[k].ignored) =>
            \E p \in ignore_patterns :
                \/ EndsWith(p, "/") /\ IsHeadOf(p, file_tree[k].path)
                \/ /\ StartsWith(p, "*.")
                   /\ EndsWith(BaseName(file_tree[k].path), LStripChar(p, "*"))
                \/ p = BaseName(file_tree[k].path) \/ p = file_tree[k].path


\* C29: within a run no path has its content requested twice, over the
\* README, ignore-file, per-file and manifest stages together.
C29_ContentFetchedAtMostOnce ==
    \A i, j \in 1..Len(requests) :
        (i < j /\ requests[i].op = "content" /\ requests[j].op = "content") =>
            requests[i].arg # requests[j].arg


\* whether a stripped go.mod line is the module declaration or the go
\* version line
IsGoDeclaration(line) == StartsWith(line, "module") \/ StartsWith(line, "go ")

\* the records expected of a go.mod text: one per requirement line, that is a
\* line other than the two declarations that holds `require` or a space
\* followed by v and keeps two tokens or more once `require` is removed
GoRequirementsOf(content) ==
    LET lines == Split(content, "\n")
        tokens(k) == SplitWs(Strip(Replace(Strip(lines[k]), "require", "")))
        pick[n \in 0..Len(lines)] ==
            IF n = 0 THEN <<>>
            ELSE IF /\ ~IsGoDeclaration(Strip(lines[n]))
                    /\ Contains(Strip(lines[n]), "require") \/ Contains(Strip(lines[n]), " v")
                    /\ Len(tokens(n)) >= 2
                 THEN Append(pick[n - 1], Dep(tokens(n)[1], tokens(n)[2], "go", FALSE))
                 ELSE pick[n - 1]
    IN  pick[Len(lines)]

GoRequirementsTable ==
    Tabulated([c \in {e.text : e \in {m \in ManifestPool : m.path = "go.mod"}} |->
                  GoRequirementsOf(c)])

\* C30: the Go module parser gives no record for the module declaration or
\* the go version line, whatever the module path is; its records are those of
\* the requirement lines that keep two tokens or more once `require` is
\* removed, so that `require (` and `)` give none.
C30_GoRecordsOnlyFromRequirements ==
    \A k \in 1..Len(parse_trace) :
        (parse_trace[k].file_name = "go.mod" /\ parse_trace[k].parsed) =>
            /\ ~parse_trace[k].raised
            /\ parse_trace[k].deps = GoRequirementsTable[RemoteText(remote, "go.mod")]

=============================================================================
